---------------------------- MODULE Spec2Model ----------------------------
(***************************************************************************)
(* A model of the SARCalNet submission tools (scn_db_tools): the Ingester  *)
(* class of ingester.py and the ingest command of ingest_all.py.           *)
(*                                                                         *)
(* Cell values are modelled with their Python type, because the validators *)
(* behave differently on float NaN, None, numbers and strings.  Strings    *)
(* are sequences of one-character strings so that startswith, split, int() *)
(* and float() are computed and not assumed.  Numbers are integers.        *)
(* DataFrame.replace(math.nan, None) is modelled as pandas 2 performs it:  *)
(* every NaN cell becomes None.                                            *)
(***************************************************************************)
EXTENDS Integers, Sequences, FiniteSets, TLC

(***************************************************************************)
(* Cell values                                                             *)
(***************************************************************************)
Num(k) == [n |-> k, s |-> <<>>, t |-> "num"]
NaN == [n |-> 0, s |-> <<>>, t |-> "nan"]
None == [n |-> 0, s |-> <<>>, t |-> "none"]
Str(x) == [n |-> 0, s |-> x, t |-> "str"]

Digits == {"0", "1", "2", "3", "4", "5", "6", "7", "8", "9"}

DigitVal(c) ==
  CASE c = "0" -> 0 [] c = "1" -> 1 [] c = "2" -> 2 [] c = "3" -> 3
    [] c = "4" -> 4 [] c = "5" -> 5 [] c = "6" -> 6 [] c = "7" -> 7
    [] c = "8" -> 8 [] c = "9" -> 9

\* the characters of s are all decimal digits, and there is at least one
AllDigits(s) == Len(s) > 0 /\ \A i \in 1..Len(s) : s[i] \in Digits

\* s without one leading sign
Unsigned(s) == IF Len(s) > 0 /\ s[1] \in {"-", "+"} THEN Tail(s) ELSE s

\* Python int(s) / float(s) succeed on s (integer literals only in this model)
IsIntStr(s) == AllDigits(Unsigned(s))

RECURSIVE DigitsVal(_)
DigitsVal(s) ==
  IF s = <<>> THEN 0
  ELSE 10 * DigitsVal(SubSeq(s, 1, Len(s) - 1)) + DigitVal(s[Len(s)])

StrToInt(s) ==
  IF Len(s) > 0 /\ s[1] = "-" THEN 0 - DigitsVal(Tail(s))
  ELSE DigitsVal(Unsigned(s))

\* str.startswith(p)
StartsWith(s, p) == Len(s) >= Len(p) /\ SubSeq(s, 1, Len(p)) = p

\* str.split(sep) for a one-character separator
RECURSIVE Split(_, _)
Split(s, sep) ==
  IF \A i \in 1..Len(s) : s[i] # sep THEN <<s>>
  ELSE LET k == CHOOSE i \in 1..Len(s) :
                  s[i] = sep /\ \A j \in 1..(i - 1) : s[j] # sep
       IN <<SubSeq(s, 1, k - 1)>> \o Split(SubSeq(s, k + 1, Len(s)), sep)

s_nan == <<"n", "a", "n">>
s_dash == <<"-">>
s_qdash == <<"'", "-", "'">>
s_ddash == <<"-", "-">>
s_http == <<"h", "t", "t", "p">>
s_https == <<"h", "t", "t", "p", "s">>

(***************************************************************************)
(* Python primitives on cell values                                        *)
(***************************************************************************)
\* str(v) == "nan"
PyStrIsNan(v) == v.t = "nan" \/ (v.t = "str" /\ v.s = s_nan)

\* float(v): "ok", or the exception it raises
PyFloat(v) ==
  CASE v.t \in {"num", "nan"} -> "ok"
    [] v.t = "none" -> "TypeError"
    [] v.t = "str" -> IF IsIntStr(v.s) \/ v.s = s_nan THEN "ok" ELSE "ValueError"

\* the number float(v) yields, where PyFloat(v) = "ok" and it is not NaN
FloatOf(v) == IF v.t = "str" THEN StrToInt(v.s) ELSE v.n
FloatIsNan(v) == v.t = "nan" \/ (v.t = "str" /\ v.s = s_nan)

\* v < c, v > c ... against a number raise TypeError for None and for strings
CmpRaises(v) == v.t \in {"none", "str"}
Lt(v, c) == v.t = "num" /\ v.n < c
Gt(v, c) == v.t = "num" /\ v.n > c
Le(v, c) == v.t = "num" /\ v.n <= c
Ge(v, c) == v.t = "num" /\ v.n >= c

\* truth value of a cell: None, 0 and "" are false, NaN is true
PyTruthy(v) ==
  CASE v.t = "none" -> FALSE
    [] v.t = "nan" -> TRUE
    [] v.t = "num" -> v.n # 0
    [] v.t = "str" -> v.s # <<>>

(***************************************************************************)
(* Validation events.  A validator run is the sequence of things it does   *)
(* on the path where nothing stops it: a failure message (printed in       *)
(* validation mode, raised as ValueError in commit mode) or an exception   *)
(* no handler of the validator catches (raised in both modes).             *)
(***************************************************************************)
\* a failure message: its sheet tag, the row number it shows, the field
\* text it names ("" when the message text names no field) and the class of
\* the check that failed: "missing" (the text reads 'missing entry for
\* mandatory field'), "format", "range" or "liveness" ('invalid entry')
MsgEv(tag, row, label, what) ==
  [e |-> "msg", exc |-> "ValueError", label |-> label, row |-> row,
   tag |-> tag, what |-> what]

\* an exception that escapes the validator
ExcEv(x) ==
  [e |-> "exc", exc |-> x, label |-> "", row |-> 0, tag |-> "", what |-> ""]

NoError ==
  [e |-> "none", exc |-> "", label |-> "", row |-> 0, tag |-> "", what |-> ""]

RECURSIVE Flatten(_)
Flatten(ss) == IF ss = <<>> THEN <<>> ELSE Head(ss) \o Flatten(Tail(ss))

\* a variant of Report that prints a failure and goes on in either mode
RECURSIVE ReportAlwaysPrints(_, _, _)
ReportAlwaysPrints(events, validation_mode, printed) ==
  IF events = <<>> THEN [printed |-> printed, raised |-> NoError]
  ELSE IF Head(events).e = "exc"
       THEN [printed |-> printed, raised |-> Head(events)]
       ELSE ReportAlwaysPrints(Tail(events), validation_mode,
                               Append(printed, Head(events)))

\* "if self.validation_mode: print(message) else: raise ValueError(message)"
\* applied along a run of events: what is printed and what is raised
RECURSIVE Report(_, _, _)
Report(events, validation_mode, printed) ==
  IF events = <<>> THEN [printed |-> printed, raised |-> NoError]
  ELSE LET ev == Head(events) IN
       IF ev.e = "exc" THEN [printed |-> printed, raised |-> ev]
       ELSE IF validation_mode
            THEN Report(Tail(events), validation_mode, Append(printed, ev))
            ELSE [printed |-> printed, raised |-> ev]

\* the mandatory-field loop shared by the validators that name the column
MissingMandatory(tag, fields, i, r) ==
  Flatten([k \in 1..Len(fields) |->
             IF PyStrIsNan(r[fields[k]])
             THEN <<MsgEv(tag, i + 6, fields[k], "missing")>>
             ELSE <<>>])

(***************************************************************************)
(* Libraries the validators call                                           *)
(***************************************************************************)
\* dateutil.parser.parse accepts s; modelled for dates written YYYY-MM-DD
DateParses(s) ==
  /\ Len(s) = 10
  /\ s[5] = "-" /\ s[8] = "-"
  /\ \A i \in {1, 2, 3, 4, 6, 7, 9, 10} : s[i] \in Digits

\* dateutil.parser.parse(v): ParserError for a string that is no date,
\* TypeError for anything that is not a string
ParseDate(v) ==
  IF v.t # "str" THEN "TypeError"
  ELSE IF DateParses(v.s) THEN "ok" ELSE "ParserError"

s_epsg == <<"E", "P", "S", "G", ":">>

\* pyproj.CRS.from_user_input(v) succeeds: an EPSG descriptor or code
CrsParses(v) ==
  \/ v.t = "num" /\ v.n > 0
  \/ /\ v.t = "str"
     /\ StartsWith(v.s, s_epsg)
     /\ AllDigits(SubSeq(v.s, Len(s_epsg) + 1, Len(v.s)))

\* requests.get(url) answers with a status below 400 (0: no connection)
HttpOk(status) == status # 0 /\ status < 400

(***************************************************************************)
(* validate_sites                                                          *)
(***************************************************************************)
site_mandatory_fields ==
  <<"short_site_identifier", "sitename", "country",
    "primary_target_type_identifier", "target_types", "primary_sensor",
    "special_requests", "responsible_organization", "active_from",
    "active_until", "poc_name", "poc_mail", "boundaries",
    "maintenance_schedule", "characteristics">>

site_active_from(i, r) ==
  CASE ParseDate(r["active_from"]) = "ok" -> <<>>
    [] ParseDate(r["active_from"]) = "ParserError" ->
         <<MsgEv("site", i + 6, "active_from", "format")>>
    [] OTHER -> <<ExcEv("TypeError")>>

site_active_until(i, r) ==
  LET v == r["active_until"] IN
  IF v.t = "str" /\ (v.s = s_dash \/ v.s = s_qdash) THEN <<>>
  ELSE CASE ParseDate(v) = "ok" -> <<>>
         [] ParseDate(v) = "ParserError" ->
              <<MsgEv("site", i + 6, "active_until", "format")>>
         [] OTHER -> <<ExcEv("TypeError")>>

\* the liveness check; net gives the status each form of the address answers
site_website_unreachable(w, net) ==
  IF StartsWith(w.s, s_http)
  THEN ~HttpOk(IF StartsWith(w.s, s_https) THEN net.https ELSE net.http)
  ELSE ~HttpOk(net.http) \/ ~HttpOk(net.https)

site_website(i, r, net) ==
  LET w == r["website"] IN
  IF PyTruthy(w) /\ ~PyStrIsNan(w)
  THEN IF w.t # "str" THEN <<ExcEv("AttributeError")>>
       ELSE IF site_website_unreachable(w, net)
            THEN <<MsgEv("site", i + 6, "website", "liveness")>>
            ELSE <<>>
  ELSE <<>>

validate_sites_row(i, r, net) ==
  MissingMandatory("site", site_mandatory_fields, i, r)
    \o site_active_from(i, r)
    \o site_active_until(i, r)
    \o site_website(i, r, net)

\* a DataFrame is a sequence of [c, idx]: the index label and the cells
validate_sites(df, net) ==
  Flatten([k \in 1..Len(df) |-> validate_sites_row(df[k].idx, df[k].c, net)])

(***************************************************************************)
(* validate_nat_targets                                                    *)
(***************************************************************************)
nat_target_mandatory_fields ==
  <<"unique_target_id", "short_site_identifier", "sitename",
    "short_target_id", "target_type_id", "geometry", "period_start",
    "period_stop">>

validate_nat_targets(df) ==
  Flatten([k \in 1..Len(df) |->
    MissingMandatory("dt", nat_target_mandatory_fields, df[k].idx, df[k].c)])

(***************************************************************************)
(* validate_art_targets                                                    *)
(***************************************************************************)
art_target_mandatory_fields ==
  <<"unique_target_id", "short_site_identifier", "short_target_id",
    "target_type_id", "apprx_latitude", "apprx_longitude",
    "apprx_elevation", "apprx_azimuth", "apprx_boresight",
    "primary_direction", "side_length", "operational", "purpose">>

\* The message of this loop is only its first string literal: the literals
\* after the closing parenthesis are statements of their own, so the text
\* raised or printed names no column.
art_target_missing(i, r) ==
  Flatten([k \in 1..Len(art_target_mandatory_fields) |->
             IF PyStrIsNan(r[art_target_mandatory_fields[k]])
             THEN <<MsgEv("cr", i + 6, "", "missing")>>
             ELSE <<>>])

\* "try: float(v) except ValueError: message = f'...' ...": again only the
\* first literal is assigned, the message names no field
art_target_float(i, v) ==
  CASE PyFloat(v) = "ok" -> <<>>
    [] PyFloat(v) = "ValueError" -> <<MsgEv("cr", i + 6, "", "format")>>
    [] OTHER -> <<ExcEv("TypeError")>>

\* "if v < lo or v > hi: message = f'...' ..."
art_target_outside(v, lo, hi) == Lt(v, lo) \/ Gt(v, hi)

art_target_range(i, v, lo, hi) ==
  IF CmpRaises(v) THEN <<ExcEv("TypeError")>>
  ELSE IF art_target_outside(v, lo, hi)
       THEN <<MsgEv("cr", i + 6, "", "range")>>
       ELSE <<>>

\* "float(side_length); if side_length <= 0: raise ValueError"
art_target_side_length(i, r) ==
  LET v == r["side_length"] IN
  CASE PyFloat(v) = "TypeError" -> <<ExcEv("TypeError")>>
    [] PyFloat(v) = "ValueError" ->
         <<MsgEv("cr", i + 6, "Side Length", "format")>>
    [] OTHER -> IF CmpRaises(v) THEN <<ExcEv("TypeError")>>
                ELSE IF Le(v, 0)
                     THEN <<MsgEv("cr", i + 6, "Side Length", "range")>>
                     ELSE <<>>

\* "if v: float(v)"
art_target_optional_float(i, v, label) ==
  IF PyTruthy(v)
  THEN CASE PyFloat(v) = "ok" -> <<>>
         [] PyFloat(v) = "ValueError" ->
              <<MsgEv("cr", i + 6, label, "format")>>
         [] OTHER -> <<ExcEv("TypeError")>>
  ELSE <<>>

\* "if v and v <= 0: raise ValueError": the comparison is only made for a
\* value that is true, and 0 is not
art_target_positive_fails(v) == PyTruthy(v) /\ Le(v, 0)

art_target_optional_positive(i, v, label) ==
  IF PyTruthy(v) /\ CmpRaises(v) THEN <<ExcEv("TypeError")>>
  ELSE IF art_target_positive_fails(v)
       THEN <<MsgEv("cr", i + 6, label, "range")>>
       ELSE <<>>

validate_art_targets_row(i, r) ==
  art_target_missing(i, r)
    \o art_target_float(i, r["apprx_latitude"])
    \o art_target_range(i, r["apprx_latitude"], -90, 90)
    \o art_target_float(i, r["apprx_longitude"])
    \o art_target_range(i, r["apprx_longitude"], -180, 180)
    \o art_target_float(i, r["apprx_elevation"])
    \o art_target_side_length(i, r)
    \o art_target_optional_float(i, r["rcs"], "RCS")
    \o art_target_optional_float(i, r["rcs_accuracy"],
         "Reference RCS measurement expected accuracy (dB)")
    \o art_target_optional_float(i, r["rcs_angle"],
         "Reference RCS measurement boresite angle (decimal deg)")
    \o art_target_optional_positive(i, r["rcs_wavelength"],
         "Reference RCS measurement wavelength (m)")
    \o art_target_optional_positive(i, r["rcs_bandwidth"],
         "Reference RCS measurement bandwidth (Hz)")

validate_art_targets(df) ==
  Flatten([k \in 1..Len(df) |-> validate_art_targets_row(df[k].idx, df[k].c)])

(***************************************************************************)
(* validate_nat_surveys                                                    *)
(***************************************************************************)
nat_survey_mandatory_fields ==
  <<"unique_target_id", "survey_start", "survey_stop", "mission",
    "carrier_frequency", "polarization_channels", "observation_time_utc",
    "incidence_angle_range", "backscatter_coefficient_type",
    "backscatter_coefficient_mean", "backscatter_coefficient_std",
    "samples", "relative_orbit", "orbit_direction", "look_side",
    "acquisition_mode", "beam_id">>

nat_survey_start(i, r) ==
  CASE ParseDate(r["survey_start"]) = "ok" -> <<>>
    [] ParseDate(r["survey_start"]) = "ParserError" ->
         <<MsgEv("surveys", i + 6, "Survey start (YYYY-MM-DD)", "format")>>
    [] OTHER -> <<ExcEv("TypeError")>>

nat_survey_stop(i, r) ==
  LET v == r["survey_stop"] IN
  IF v.t = "str" /\ v.s = s_dash THEN <<>>
  ELSE CASE ParseDate(v) = "ok" -> <<>>
         [] ParseDate(v) = "ParserError" ->
              <<MsgEv("surveys", i + 6,
                      "Stop Monitoring Period (YYYY-MM-DD or \"-\")",
                      "format")>>
         [] OTHER -> <<ExcEv("TypeError")>>

validate_nat_surveys_row(i, r) ==
  MissingMandatory("surveys", nat_survey_mandatory_fields, i, r)
    \o nat_survey_start(i, r)
    \o nat_survey_stop(i, r)

validate_nat_surveys(df) ==
  Flatten([k \in 1..Len(df) |-> validate_nat_surveys_row(df[k].idx, df[k].c)])

(***************************************************************************)
(* validate_art_surveys and the validate_* methods it calls                *)
(***************************************************************************)
art_survey_mandatory_fields ==
  <<"unique_target_id", "survey_date", "lat", "lon", "elevation",
    "position_accuracy", "coordinate_reference_system", "azimuth_angle",
    "boresight_angle", "tilt", "accuracy", "fence", "measurement_method",
    "offset_method">>

\* "except (dateutil.parser.ParserError, TypeError)"
art_survey_date(i, r) ==
  IF ParseDate(r["survey_date"]) = "ok" THEN <<>>
  ELSE <<MsgEv("surveys", i + 6, "Survey date (YYYY-MM-DD)", "format")>>

\* the conditions under which each method reports its value
lat_fails(v) == Lt(v, -90) \/ Gt(v, 90)
lon_fails(v) == Lt(v, -180) \/ Gt(v, 180)
position_accuracy_fails(v) == Le(v, 0)
azimuth_angle_fails(v) ==
  ~FloatIsNan(v) /\ (FloatOf(v) < 0 \/ FloatOf(v) >= 360)
boresight_angle_fails(v) == Lt(v, -360) \/ Gt(v, 360)
tilt_fails(v) == v.t = "str" \/ Lt(v, 0) \/ Ge(v, 360)
accuracy_fails(v) == Lt(v, 0)

validate_lat(i, r) ==
  IF CmpRaises(r["lat"]) THEN <<ExcEv("TypeError")>>
  ELSE IF lat_fails(r["lat"])
       THEN <<MsgEv("surveys", i + 6, "Latitude (decimal deg)", "range")>>
       ELSE <<>>

validate_lon(i, r) ==
  IF CmpRaises(r["lon"]) THEN <<ExcEv("TypeError")>>
  ELSE IF lon_fails(r["lon"])
       THEN <<MsgEv("surveys", i + 6, "Longitude (decimal deg)", "range")>>
       ELSE <<>>

validate_position_accuracy(i, r) ==
  LET v == r["position_accuracy"] IN
  CASE PyFloat(v) = "TypeError" -> <<ExcEv("TypeError")>>
    [] PyFloat(v) = "ValueError" ->
         <<MsgEv("surveys", i + 6, "Position accuracy (cm)", "format")>>
    [] OTHER ->
         IF CmpRaises(v) THEN <<ExcEv("TypeError")>>
         ELSE IF position_accuracy_fails(v)
              THEN <<MsgEv("surveys", i + 6, "Position accuracy (cm)",
                           "range")>>
              ELSE <<>>

validate_crs(i, r) ==
  IF CrsParses(r["coordinate_reference_system"]) THEN <<>>
  ELSE <<MsgEv("surveys", i + 6,
               "Coordinate Reference System (WKT or EPSG)", "format")>>

validate_azimuth_angle(i, r) ==
  LET v == r["azimuth_angle"] IN
  CASE PyFloat(v) = "TypeError" -> <<ExcEv("TypeError")>>
    [] PyFloat(v) = "ValueError" ->
         <<MsgEv("surveys", i + 6, "Azimuth angle (decimal deg)", "format")>>
    [] OTHER ->
         IF azimuth_angle_fails(v)
         THEN <<MsgEv("surveys", i + 6, "Azimuth angle (decimal deg)",
                      "range")>>
         ELSE <<>>

validate_boresight_angle(i, r) ==
  LET v == r["boresight_angle"] IN
  CASE PyFloat(v) = "TypeError" -> <<ExcEv("TypeError")>>
    [] PyFloat(v) = "ValueError" ->
         <<MsgEv("surveys", i + 6, "Boresight angle (decimal deg)",
                 "format")>>
    [] OTHER ->
         IF CmpRaises(v) THEN <<ExcEv("TypeError")>>
         ELSE IF boresight_angle_fails(v)
              THEN <<MsgEv("surveys", i + 6, "Boresight angle (decimal deg)",
                           "range")>>
              ELSE <<>>

validate_tilt(i, r) ==
  LET v == r["tilt"] IN
  CASE PyFloat(v) = "TypeError" -> <<ExcEv("TypeError")>>
    [] PyFloat(v) = "ValueError" ->
         <<MsgEv("surveys", i + 6, "Tilt angle (decimal deg)", "format")>>
    [] OTHER ->
         IF tilt_fails(v)
         THEN <<MsgEv("surveys", i + 6, "Tilt angle (decimal deg)", "range")>>
         ELSE <<>>

validate_accuracy(i, r) ==
  LET v == r["accuracy"] IN
  CASE PyFloat(v) = "TypeError" -> <<ExcEv("TypeError")>>
    [] PyFloat(v) = "ValueError" ->
         <<MsgEv("surveys", i + 6, "Pointing accuracy (decimal deg)",
                 "format")>>
    [] OTHER ->
         IF CmpRaises(v) THEN <<ExcEv("TypeError")>>
         ELSE IF accuracy_fails(v)
              THEN <<MsgEv("surveys", i + 6,
                           "Pointing accuracy (decimal deg)", "range")>>
              ELSE <<>>

\* a variant of duration_ok without the test on the number of parts
duration_ok_any_length(s) ==
  LET parts == Split(s, ":") IN
  \A k \in 1..Len(parts) : IsIntStr(parts[k])

\* "parts = duration.split(':'); len(parts) != 3 -> ValueError; int(part)"
duration_ok(s) ==
  LET parts == Split(s, ":") IN
  Len(parts) = 3 /\ \A k \in 1..3 : IsIntStr(parts[k])

validate_duration(i, r) ==
  LET v == r["duration"] IN
  IF v.t # "str" THEN <<ExcEv("AttributeError")>>
  ELSE IF duration_ok(v.s) THEN <<>>
       ELSE <<MsgEv("surveys", i + 6,
                    "GNSS measurement duration (hh:mm:ss)", "format")>>

validate_art_surveys_row(i, r) ==
  MissingMandatory("surveys", art_survey_mandatory_fields, i, r)
    \o art_survey_date(i, r)
    \o validate_lat(i, r)
    \o validate_lon(i, r)
    \o validate_position_accuracy(i, r)
    \o validate_crs(i, r)
    \o validate_azimuth_angle(i, r)
    \o validate_boresight_angle(i, r)
    \o validate_tilt(i, r)
    \o validate_accuracy(i, r)
    \o validate_duration(i, r)

validate_art_surveys(df) ==
  Flatten([k \in 1..Len(df) |-> validate_art_surveys_row(df[k].idx, df[k].c)])

(***************************************************************************)
(* Reading and normalising a sheet                                         *)
(***************************************************************************)
\* pd.read_excel: the rows of a sheet, labelled 0, 1, ... in sheet order
DataFrame(rows) == [k \in 1..Len(rows) |-> [c |-> rows[k], idx |-> k - 1]]

\* df[condition on a column]: the rows kept keep their index label
Keep(df, col, Cond(_)) == SelectSeq(df, LAMBDA x : Cond(x.c[col]))

\* df.replace(a, b) on every cell
ReplaceCells(df, Swap(_)) ==
  [k \in 1..Len(df) |->
     [c |-> [f \in DOMAIN df[k].c |-> Swap(df[k].c[f])], idx |-> df[k].idx]]

\* df.drop(col, axis=1)
DropColumn(df, col) ==
  [k \in 1..Len(df) |->
     [c |-> [f \in (DOMAIN df[k].c) \ {col} |-> df[k].c[f]],
      idx |-> df[k].idx]]

\* the cell swaps the readers apply
nan_to_None(v) == IF v.t = "nan" THEN None ELSE v
nan_to_empty(v) == IF v.t = "nan" THEN Str(<<>>) ELSE v
dash_to_None(v) == IF v.t = "str" /\ v.s = s_dash THEN None ELSE v

\* pandas' notna / notnull
NotNa(v) == v.t \notin {"nan", "none"}

\* create_site_gdf up to the call of validate_sites: template rows are
\* dropped, nothing is normalised yet
site_not_dash(v) == ~(v.t = "str" /\ v.s = s_dash)

read_sites(rows) ==
  DropColumn(Keep(Keep(DataFrame(rows), "Unique Site ID", site_not_dash),
                  "Unique Site ID", NotNa),
             "Unique Site ID")

\* ingest_nat_targets up to the call of validate_nat_targets
target_not_ddash(v) == ~(v.t = "str" /\ v.s = s_ddash)

read_nat_targets(rows) ==
  ReplaceCells(ReplaceCells(Keep(DataFrame(rows), "unique_target_id",
                                 target_not_ddash),
                            nan_to_None),
               dash_to_None)

\* ingest_art_targets up to the call of validate_art_targets
read_art_targets_df(rows) ==
  ReplaceCells(Keep(DataFrame(rows), "unique_target_id", target_not_ddash),
               nan_to_None)

\* read_nat_surveys up to the call of validate_nat_surveys
survey_id_not_empty(v) == ~(v.t = "str" /\ v.s = <<>>)

read_nat_surveys_df(rows) ==
  ReplaceCells(Keep(DataFrame(rows), "unique_target_id", survey_id_not_empty),
               nan_to_None)

\* Series.astype(float) on one cell: None becomes NaN, a numeric string its
\* number
as_float(v) ==
  CASE v.t = "none" -> NaN
    [] v.t = "str" -> IF v.s = s_nan THEN NaN ELSE Num(StrToInt(v.s))
    [] OTHER -> v

\* astype(float) raises ValueError on a string that is no number
astype_float_raises(df, col) ==
  \E k \in 1..Len(df) : PyFloat(df[k].c[col]) = "ValueError"

\* read_art_surveys up to the astype(float) of the elevation column
art_surveys_kept(rows) ==
  ReplaceCells(Keep(Keep(DataFrame(rows), "unique_target_id",
                         survey_id_not_empty),
                    "unique_target_id", NotNa),
               nan_to_None)

\* read_art_surveys up to the call of validate_art_surveys, or up to the
\* astype(float) that raises
read_art_surveys_df(rows) ==
  LET kept == art_surveys_kept(rows) IN
  IF astype_float_raises(kept, "elevation") THEN kept
  ELSE [k \in 1..Len(kept) |->
          [c |-> [kept[k].c EXCEPT !["elevation"] = as_float(@)],
           idx |-> kept[k].idx]]

\* what a validation pass over a sheet of each kind does, from the rows
\* read to the end of its validator
sites_pass(rows, net) == validate_sites(read_sites(rows), net)
nat_targets_pass(rows) == validate_nat_targets(read_nat_targets(rows))
art_targets_pass(rows) == validate_art_targets(read_art_targets_df(rows))
nat_surveys_pass(rows) == validate_nat_surveys(read_nat_surveys_df(rows))
art_surveys_pass(rows) ==
  IF astype_float_raises(art_surveys_kept(rows), "elevation")
  THEN <<ExcEv("ValueError")>>
  ELSE validate_art_surveys(read_art_surveys_df(rows))

(***************************************************************************)
(* The strings the inputs are drawn from                                   *)
(***************************************************************************)
s_x == <<"x">>
s_abc == <<"a", "b", "c">>
s_45 == <<"4", "5">>
s_date == <<"2", "0", "2", "1", "-", "0", "1", "-", "0", "1">>
s_soon == <<"s", "o", "o", "n">>
s_dur == <<"0", "1", ":", "0", "2", ":", "0", "3">>
s_dur2 == <<"1", "2", ":", "3", "0">>
s_dur3 == <<"1", ":", "x", ":", "3">>
s_dur4 == <<"1", ":", "2", ":", "3", ":", "4">>
s_crs == <<"E", "P", "S", "G", ":", "4", "3", "2", "6">>
s_site1 == <<"A", "B", "C", "D">>
s_site2 == <<"E", "F", "G", "H">>
s_uid1 == <<"A", "B", "C", "D", "-", "C", "R">>
s_uid2 == <<"E", "F", "G", "H", "-", "C", "R">>
s_tt == <<"C", "R">>
s_t1 == <<"T", "1">>
s_t2 == <<"T", "2">>
s_web == <<"w", ".", "o", "r", "g">>
s_webs == <<"h", "t", "t", "p", "s", ":", "/", "/", "w", ".", "o", "r", "g">>
s_poly ==
  <<"P", "O", "L", "Y", "G", "O", "N", "(", "(", "0", " ", "0", ",", "0",
    " ", "2", ",", "2", " ", "2", ",", "2", " ", "0", ",", "0", " ", "0",
    ")", ")">>
s_id == <<"i", "d">>
s_pdf == <<"a", ".", "p", "d", "f">>

(***************************************************************************)
(* Rows: one well-formed row per sheet kind, and the rows obtained from it *)
(* by changing one cell                                                    *)
(***************************************************************************)
site_base ==
  [f \in {"Unique Site ID", "short_site_identifier", "sitename", "country",
          "province_state_region", "primary_target_type_identifier",
          "target_types", "primary_sensor", "special_requests",
          "responsible_organization", "website", "active_from",
          "active_until", "poc_name", "poc_mail", "poc2_name", "poc2_mail",
          "centroid", "boundaries", "maintenance_schedule",
          "characteristics"} |->
     CASE f = "Unique Site ID" -> Str(s_uid1)
       [] f = "short_site_identifier" -> Str(s_site1)
       [] f = "primary_target_type_identifier" -> Str(s_tt)
       [] f = "active_from" -> Str(s_date)
       [] f = "active_until" -> Str(s_dash)
       [] f = "boundaries" -> Str(s_poly)
       [] f \in {"website", "centroid", "poc2_name", "poc2_mail",
                 "province_state_region"} -> NaN
       [] OTHER -> Str(s_x)]

nat_target_base ==
  [f \in {"unique_target_id", "short_site_identifier", "sitename", "subsite",
          "short_target_id", "target_type_id", "geometry", "coverage",
          "mask_polygon", "period_start", "period_stop"} |->
     CASE f = "unique_target_id" -> Str(s_t1)
       [] f = "short_site_identifier" -> Str(s_site1)
       [] f = "geometry" -> Str(s_poly)
       [] f = "coverage" -> Num(4)
       [] f = "period_start" -> Str(s_date)
       [] f = "period_stop" -> Str(s_dash)
       [] f \in {"subsite", "mask_polygon"} -> NaN
       [] OTHER -> Str(s_x)]

art_target_numeric ==
  {"apprx_latitude", "apprx_longitude", "apprx_elevation", "apprx_azimuth",
   "apprx_boresight", "side_length", "rcs", "rcs_accuracy", "rcs_angle",
   "rcs_wavelength", "rcs_bandwidth"}

art_target_base ==
  [f \in {"unique_target_id", "short_site_identifier", "sitename",
          "short_target_id", "target_type_id", "primary_direction",
          "operational", "purpose", "photo_link"} \cup art_target_numeric |->
     CASE f = "unique_target_id" -> Str(s_t1)
       [] f = "short_site_identifier" -> Str(s_site1)
       [] f = "apprx_latitude" -> Num(45)
       [] f = "apprx_longitude" -> Num(120)
       [] f \in {"apprx_elevation", "apprx_azimuth", "apprx_boresight"} ->
            Num(10)
       [] f = "side_length" -> Num(1)
       [] f \in {"photo_link", "rcs", "rcs_accuracy", "rcs_angle",
                 "rcs_wavelength", "rcs_bandwidth"} -> NaN
       [] OTHER -> Str(s_x)]

nat_survey_base ==
  [f \in {"unique_target_id", "survey_start", "survey_stop", "mission",
          "carrier_frequency", "polarization_channels",
          "observation_time_utc", "observation_time_local",
          "incidence_angle_range", "backscatter_coefficient_type",
          "backscatter_coefficient_mean", "backscatter_coefficient_std",
          "reference_surface", "samples", "relative_orbit",
          "orbit_direction", "look_side", "acquisition_mode", "beam_id",
          "scene_identifier", "query_url"} |->
     CASE f = "unique_target_id" -> Str(s_t1)
       [] f \in {"survey_start", "survey_stop"} -> Str(s_date)
       [] f \in {"carrier_frequency", "backscatter_coefficient_mean",
                 "backscatter_coefficient_std", "samples",
                 "relative_orbit"} -> Num(5)
       [] f \in {"observation_time_local", "reference_surface",
                 "scene_identifier", "query_url"} -> NaN
       [] OTHER -> Str(s_x)]

art_survey_numeric ==
  {"lat", "lon", "elevation", "position_accuracy", "azimuth_angle",
   "boresight_angle", "tilt", "accuracy"}

art_survey_base ==
  [f \in {"unique_target_id", "survey_date", "coordinate_reference_system",
          "fence", "measurement_method", "offset_method", "corrections",
          "duration", "photo_link", "status_report"}
         \cup art_survey_numeric |->
     CASE f = "unique_target_id" -> Str(s_t1)
       [] f = "survey_date" -> Str(s_date)
       [] f = "coordinate_reference_system" -> Str(s_crs)
       [] f = "lat" -> Num(45)
       [] f = "lon" -> Num(120)
       [] f \in {"elevation", "azimuth_angle", "boresight_angle", "tilt"} ->
            Num(10)
       [] f \in {"position_accuracy", "accuracy"} -> Num(1)
       [] f = "duration" -> Str(s_dur)
       [] f \in {"corrections", "photo_link", "status_report"} -> NaN
       [] OTHER -> Str(s_x)]

\* the largest magnitude of a number typed into a numeric cell
NumBound == 361

\* the longest sheet read
MaxRows == 2

NumVals == {Num(k) : k \in (0 - NumBound)..NumBound}

\* what else a cell can hold: blank (read as NaN), or text of any kind
OddVals ==
  {NaN, Num(5), Str(s_x), Str(s_abc), Str(s_45), Str(s_dash), Str(s_ddash),
   Str(s_date), Str(s_soon), Str(s_dur), Str(s_dur2), Str(s_dur3), Str(s_dur4),
   Str(s_crs), Str(s_web), Str(s_webs)}

\* base with one cell changed: any cell to an odd value, a numeric cell to
\* any number
OneCellChanged(base, numeric) ==
  {[base EXCEPT ![f] = v] : f \in DOMAIN base, v \in OddVals}
    \cup {[base EXCEPT ![f] = v] : f \in numeric, v \in NumVals}

\* sheets of up to MaxRows rows of which one has one cell changed
SheetsAround(base, numeric) ==
  {[k \in 1..n |-> IF k = p THEN r ELSE base] :
     n \in 1..MaxRows, p \in 1..MaxRows, r \in OneCellChanged(base, numeric)}

\* the status the two forms of a website address answer with
Nets == [http : {0, 200, 404}, https : {0, 200, 404}]

(***************************************************************************)
(* State                                                                   *)
(***************************************************************************)
VARIABLES
  client_id, client_secret, admin_password, filebird_token, \* constructor
  validation_mode, geoDB,                                   \* Ingester
  license_file,       \* the --license_file option of the command
  pc,                 \* the call the command makes next
  sheet,              \* the sheet read last, as its validator saw it,
                      \* and the failures its validator met on it
  printed,            \* failure messages printed so far
  raised,             \* the exception that ended the command, or NoError
  store,              \* the records of each collection of the database
  db_calls,           \* the write calls made on the geoDB client
  posts,              \* the media uploads posted
  staged,             \* the photo staging files left on the local disk
  license_url, site_ids, target_type    \* locals of the command

ingesterVars ==
  <<client_id, client_secret, admin_password, filebird_token,
    validation_mode, geoDB, license_file>>

remoteVars == <<store, db_calls, posts, staged>>

localVars == <<license_url, site_ids, target_type>>

vars == <<ingesterVars, pc, sheet, printed, raised, remoteVars, localVars>>

Collections ==
  {"calibration_sites", "calibration_targets", "calibration_nat_targets",
   "calibration_surveys", "calibration_nat_surveys"}

\* a variant of validation_mode_of that asks for both to be missing
validation_mode_needs_both(cid, secret) == ~PyTruthy(cid) /\ ~PyTruthy(secret)

\* Ingester.__init__: "if not client_id or not client_secret"
validation_mode_of(cid, secret) == ~PyTruthy(cid) \/ ~PyTruthy(secret)

\* no address was requested
NoNet == [http |-> 0, https |-> 0]

\* what the addresses of a site sheet can answer: nothing is requested for
\* a sheet without website cells
NetsFor(rows) ==
  IF \E k \in DOMAIN rows :
       LET w == rows[k]["website"] IN
       PyTruthy(w) /\ ~PyStrIsNan(w) /\ w.t = "str"
  THEN Nets
  ELSE {NoNet}

\* the sheet read last: its rows as read from the workbook, the frame the
\* validator was given, the validator's findings, and what the addresses
\* requested during the pass answered
Sheet(kind, raw, net, df, events) ==
  [df |-> df, events |-> events, kind |-> kind, net |-> net, raw |-> raw]

\* the state after Ingester(...) is constructed by a command
Init ==
  /\ client_id \in {None, Str(<<>>), Str(s_id)}
  /\ client_secret \in {None, Str(<<>>), Str(s_id)}
  /\ admin_password \in {None, Str(s_id)}
  /\ filebird_token \in {None, Str(s_id)}
  /\ validation_mode = validation_mode_of(client_id, client_secret)
  /\ geoDB = IF validation_mode THEN "None" ELSE "GeoDBClient"
  /\ license_file \in {None, Str(s_pdf)}
  /\ pc = "start"
  /\ sheet = Sheet("none", <<>>, NoNet, <<>>, <<>>)
  /\ printed = <<>>
  /\ raised = NoError
  /\ store = [c \in Collections |-> <<>>]
  /\ db_calls = <<>>
  /\ posts = <<>>
  /\ staged = 0
  /\ license_url = None
  /\ site_ids = <<>>
  /\ target_type = "None"

(***************************************************************************)
(* The validation passes on their own: each action is one validate_* call  *)
(* on a freshly read sheet of its kind.                                    *)
(***************************************************************************)
Validated(kind, raw, net, df, events) ==
  LET r == Report(events, validation_mode, <<>>) IN
  /\ pc' = "validated"
  /\ sheet' = Sheet(kind, raw, net, df, events)
  /\ printed' = r.printed
  /\ raised' = r.raised
  /\ UNCHANGED <<ingesterVars, remoteVars, localVars>>

ValidateSites ==
  /\ pc = "start"
  /\ \E rows \in SheetsAround(site_base, {}) : \E net \in NetsFor(rows) :
       Validated("site", rows, net, read_sites(rows),
                 sites_pass(rows, net))

ValidateNatTargets ==
  /\ pc = "start"
  /\ \E rows \in SheetsAround(nat_target_base, {"coverage"}) :
       Validated("dt", rows, NoNet, read_nat_targets(rows),
                 nat_targets_pass(rows))

ValidateArtTargets ==
  /\ pc = "start"
  /\ \E rows \in SheetsAround(art_target_base, art_target_numeric) :
       Validated("cr", rows, NoNet, read_art_targets_df(rows),
                 art_targets_pass(rows))

ValidateNatSurveys ==
  /\ pc = "start"
  /\ \E rows \in SheetsAround(nat_survey_base, {}) :
       Validated("nat_surveys", rows, NoNet, read_nat_surveys_df(rows),
              nat_surveys_pass(rows))

ValidateArtSurveys ==
  /\ pc = "start"
  /\ \E rows \in SheetsAround(art_survey_base, art_survey_numeric) :
       Validated("surveys", rows, NoNet, read_art_surveys_df(rows),
                 art_surveys_pass(rows))

ValidateNext ==
  \/ ValidateSites
  \/ ValidateNatTargets
  \/ ValidateArtTargets
  \/ ValidateNatSurveys
  \/ ValidateArtSurveys

\* an ingester of either mode, built without the WordPress options
ValidateInit ==
  /\ Init
  /\ client_secret = client_id
  /\ admin_password = None
  /\ filebird_token = None
  /\ license_file = None

ValidateSpec == ValidateInit /\ [][ValidateNext]_vars

(***************************************************************************)
(* create_site_gdf after validation: normalisation, centroid, geometry     *)
(***************************************************************************)
s_review == <<"r", "e", "v", "i", "e", "w">>
s_POINT == <<"P", "O", "I", "N", "T">>
s_point0 == <<"P", "O", "I", "N", "T", "(", "0", " ", "0", ")">>
s_centre == <<"P", "O", "I", "N", "T", " ", "(", "1", " ", "1", ")">>
s_pair == <<"3", "6", ".", "5", ",", " ", "1", "2", "0", ".", "5">>
s_pairwkt ==
  <<"P", "O", "I", "N", "T", "(", "1", "2", "0", ".", "5", " ", "3", "6",
    ".", "5", ")">>
s_url ==
  <<"h", "t", "t", "p", "s", ":", "/", "/", "w", "w", "w", ".", "s", "a",
    "r", "c", "a", "l", "n", "e", "t", ".", "o", "r", "g", "/", "u">>
s_photo ==
  <<"h", "t", "t", "p", ":", "/", "/", "p", ".", "o", "r", "g", "/", "a",
    ".", "j", "p", "g">>
s_local == <<"a", ".", "j", "p", "g">>

Spaces == {" "}

\* str.strip()
RECURSIVE Strip(_)
Strip(s) ==
  IF s # <<>> /\ Head(s) \in Spaces THEN Strip(Tail(s))
  ELSE IF s # <<>> /\ s[Len(s)] \in Spaces
       THEN Strip(SubSeq(s, 1, Len(s) - 1))
       ELSE s

\* re.search(r"\s*-?\d+.\d*\s*,\s*-?\d+.\d*\s*", s) finds a match: around
\* some comma p there is, to the left, a digit, any one character, digits
\* and spaces, and to the right spaces, an optional minus, a digit and any
\* one character (the unescaped "." matches any character)
PairLeft(s, p) ==
  \E a \in 1..(p - 2), b \in 1..(p - 1) :
    /\ a + 1 <= b
    /\ s[a] \in Digits
    /\ \A j \in (a + 2)..b : s[j] \in Digits
    /\ \A j \in (b + 1)..(p - 1) : s[j] \in Spaces

PairRight(s, p) ==
  \E c \in (p + 1)..Len(s) :
    /\ \A j \in (p + 1)..(c - 1) : s[j] \in Spaces
    /\ LET d == IF s[c] = "-" THEN c + 1 ELSE c IN
       d + 1 <= Len(s) /\ s[d] \in Digits

CentroidIsPair(s) ==
  \E p \in 1..Len(s) : s[p] = "," /\ PairLeft(s, p) /\ PairRight(s, p)

\* str(v).upper().startswith("POINT")
UpperChar(ch) ==
  CASE ch = "p" -> "P" [] ch = "o" -> "O" [] ch = "i" -> "I"
    [] ch = "n" -> "N" [] ch = "t" -> "T" [] OTHER -> ch

StartsWithPoint(s) ==
  Len(s) >= 5 /\ [k \in 1..5 |-> UpperChar(s[k])] = s_POINT

\* shapely.from_wkt accepts s
IsWkt(s) ==
  StartsWith(s, <<"P", "O", "L", "Y", "G", "O", "N", "(">>)
    \/ StartsWith(s, <<"P", "O", "I", "N", "T", "(">>)
    \/ StartsWith(s, <<"P", "O", "I", "N", "T", " ", "(">>)

\* shapely.centroid(shapely.from_wkt(s)).wkt, for the polygons of the model
CentroidWkt(s) == IF s = s_poly THEN s_centre ELSE s_point0

\* compute_centroid_from_boundaries on the cells of one row, in commit
\* mode: the row with its centroid set, or what is raised
centroid_blank(v) == v.t = "nan" \/ (v.t = "str" /\ v.s = <<>>)

compute_centroid_from_boundaries(i, r) ==
  LET v == r["centroid"]
      b == r["boundaries"]
  IN
  IF centroid_blank(v)
  THEN IF b.t = "str" /\ IsWkt(b.s)
       THEN [raised |-> NoError,
             row |-> [r EXCEPT !["centroid"] = Str(CentroidWkt(b.s))]]
       ELSE [raised |-> IF b.t = "none" THEN ExcEv("AttributeError")
                        ELSE ExcEv("GEOSException"),
             row |-> r]
  ELSE IF v.t = "str" /\ CentroidIsPair(v.s)
       THEN LET parts == Split(v.s, ",")
                lat == Strip(parts[1])
                lon == Strip(parts[2])
            IN [raised |-> NoError,
                row |-> [r EXCEPT !["centroid"] =
                           Str(s_POINT \o <<"(">> \o lon \o <<" ">> \o lat
                               \o <<")">>)]]
       ELSE IF v.t = "str" /\ StartsWithPoint(v.s)
            THEN [raised |-> NoError, row |-> r]
            ELSE [raised |-> MsgEv("site", i + 6, "centroid", "format"),
                  row |-> r]

\* the rows of create_site_gdf's GeoDataFrame: cells normalised, centroid
\* set, endorsement, geometry parsed from the boundaries
site_normalised(df) ==
  ReplaceCells(ReplaceCells(df, nan_to_empty), dash_to_None)

site_record(r) ==
  [f \in DOMAIN r \cup {"endorsement", "geometry"} |->
     CASE f = "endorsement" -> Str(s_review)
       [] f = "geometry" -> r["boundaries"]
       [] OTHER -> r[f]]

\* the exception the normalisation of a validated site frame ends with:
\* the first row whose centroid or boundaries cannot be used
RECURSIVE site_gdf_raised(_)
site_gdf_raised(df) ==
  IF df = <<>> THEN NoError
  ELSE LET res == compute_centroid_from_boundaries(df[1].idx, df[1].c) IN
       IF res.raised # NoError THEN res.raised
       ELSE site_gdf_raised(Tail(df))

\* gpd.GeoSeries.from_wkt(boundaries): a missing value gives a missing
\* geometry, anything else that is no WKT raises
wkt_raises(v) == v.t # "none" /\ ~(v.t = "str" /\ IsWkt(v.s))

site_geometry_raised(df) ==
  IF \E k \in 1..Len(df) : wkt_raises(dash_to_None(df[k].c["boundaries"]))
  THEN ExcEv("GEOSException")
  ELSE NoError

site_gdf(df) ==
  [k \in 1..Len(df) |->
     site_record(compute_centroid_from_boundaries(df[k].idx, df[k].c).row)]

(***************************************************************************)
(* The WordPress media service, as the calls of one handler find it        *)
(***************************************************************************)
\* folder: the folder listing holds the folder asked for
\* upload: "created", or refused with a body that has no source_url
\*         ("rejected") or that has one ("rejected_with_url")
\* move:   the folder assignment is accepted
\* local:  a photo given as a local path exists
\* one call meets at most one of these going wrong
WordPress ==
  {wp \in [folder : BOOLEAN, local : BOOLEAN, move : BOOLEAN,
           upload : {"created", "rejected", "rejected_with_url"}] :
     Cardinality({f \in {"folder", "local", "move"} : ~wp[f]}
                 \cup {f \in {"upload"} : wp[f] # "created"}) <= 1}

\* get_folder_id
get_folder_id(wp) == IF wp.folder THEN NoError ELSE ExcEv("ValueError")

\* upload_file past its validation-mode return: the exception it ends with
upload_file_raised(wp) ==
  CASE wp.upload # "created" -> ExcEv("ValueError")
    [] ~wp.move -> ExcEv("ValueError")
    [] OTHER -> NoError

\* upload_photos on the photo_link cell of one row: whether a media upload
\* is posted, what is raised, whether a staging file is left behind, and
\* the cell afterwards
photo_row(v, wp) ==
  LET quiet == [left |-> FALSE, link |-> v, posted |-> FALSE,
                raised |-> NoError]
  IN
  IF ~PyTruthy(v) THEN quiet
  ELSE IF v.t # "str"
       THEN [quiet EXCEPT !.raised = ExcEv("AttributeError")]
       ELSE LET http == StartsWith(v.s, s_http) IN
            IF ~http /\ ~wp.local THEN quiet
            ELSE CASE wp.upload = "rejected" ->
                        [left |-> http, link |-> v, posted |-> TRUE,
                         raised |-> ExcEv("KeyError")]
                   [] wp.upload = "rejected_with_url" ->
                        [left |-> FALSE, link |-> Str(s_url),
                         posted |-> TRUE, raised |-> ExcEv("ValueError")]
                   [] OTHER ->
                        [left |-> FALSE, link |-> Str(s_url),
                         posted |-> TRUE,
                         raised |-> IF wp.move THEN NoError
                                    ELSE ExcEv("ValueError")]

\* the rows of df in turn, until one raises
RECURSIVE photo_rows(_, _, _)
photo_rows(df, wp, acc) ==
  IF df = <<>> THEN acc
  ELSE LET res == photo_row(df[1].c["photo_link"], wp)
           next == [df |-> Append(acc.df,
                                  [c |-> [df[1].c EXCEPT !["photo_link"] =
                                            res.link],
                                   idx |-> df[1].idx]),
                    posted |-> acc.posted + (IF res.posted THEN 1 ELSE 0),
                    raised |-> res.raised,
                    staged |-> acc.staged + (IF res.left THEN 1 ELSE 0)]
       IN IF res.raised # NoError THEN next
          ELSE photo_rows(Tail(df), wp, next)

upload_photos(df, wp) ==
  IF get_folder_id(wp) # NoError
  THEN [df |-> df, posted |-> 0, raised |-> get_folder_id(wp), staged |-> 0]
  ELSE photo_rows(df, wp,
                  [df |-> <<>>, posted |-> 0, raised |-> NoError,
                   staged |-> 0])

(***************************************************************************)
(* Record assembly                                                         *)
(***************************************************************************)
List(items) == [items |-> items, t |-> "list"]
Point(x, y) == [t |-> "point", x |-> x, y |-> y]

\* a variant of unavailability_of that aggregates the column over all the
\* rows, without grouping
unavailability_of_all(unavailability, id, col) ==
  List([k \in 1..Len(unavailability) |-> unavailability[k][col]])

\* groupby("unique_target_id").agg(list) and merge(on="unique_target_id"):
\* the values of a column of the rows of one target, in sheet order
unavailability_of(unavailability, id, col) ==
  LET mine == SelectSeq(unavailability,
                        LAMBDA u : u["unique_target_id"] = id)
  IN List([k \in 1..Len(mine) |-> mine[k][col]])

has_unavailability(unavailability, id) ==
  \E k \in 1..Len(unavailability) :
    unavailability[k]["unique_target_id"] = id

\* targets_df.merge(unavailability, on="unique_target_id")
merge_unavailability(df, unavailability) ==
  LET kept == SelectSeq(df, LAMBDA x :
                 has_unavailability(unavailability,
                                    x.c["unique_target_id"]))
  IN [k \in 1..Len(kept) |->
        [c |-> [f \in DOMAIN kept[k].c
                      \cup {"unavailability_start", "unavailability_end"} |->
                  IF f \in {"unavailability_start", "unavailability_end"}
                  THEN unavailability_of(unavailability,
                                         kept[k].c["unique_target_id"], f)
                  ELSE kept[k].c[f]],
         idx |-> k - 1]]

\* gpd.points_from_xy(apprx_longitude, apprx_latitude)
art_target_record(r) ==
  [f \in DOMAIN r \cup {"geometry"} |->
     IF f = "geometry"
     THEN Point(r["apprx_longitude"], r["apprx_latitude"])
     ELSE r[f]]

\* surveys_df.insert(..., "geometry", "POINT(0 0)")
survey_record(r) ==
  [f \in DOMAIN r \cup {"geometry"} |->
     IF f = "geometry" THEN Str(s_point0) ELSE r[f]]

Records(df, Rec(_)) == [k \in 1..Len(df) |-> Rec(df[k].c)]

(***************************************************************************)
(* The sheets of a submission                                              *)
(***************************************************************************)
\* sheets of up to MaxRows rows: a first row of rows, then base rows
Sheets(base, rows) ==
  {[k \in 1..n |-> IF k = 1 THEN r ELSE base] : n \in 1..MaxRows, r \in rows}

SiteRows ==
  {site_base,
   [site_base EXCEPT !["Unique Site ID"] = Str(s_uid2),
                     !["short_site_identifier"] = Str(s_site2)],
   [site_base EXCEPT !["Unique Site ID"] = Str(s_dash)],
   [site_base EXCEPT !["active_from"] = NaN],
   [site_base EXCEPT !["website"] = Str(s_web)],
   [site_base EXCEPT !["centroid"] = Str(s_abc)],
   [site_base EXCEPT !["centroid"] = Str(s_pair)],
   [site_base EXCEPT !["centroid"] = Str(s_centre)]}

NatTargetRows ==
  {nat_target_base,
   [nat_target_base EXCEPT !["unique_target_id"] = Str(s_t2)],
   [nat_target_base EXCEPT !["geometry"] = NaN],
   [nat_target_base EXCEPT !["unique_target_id"] = Str(s_ddash)]}

ArtTargetRows ==
  {art_target_base,
   [art_target_base EXCEPT !["unique_target_id"] = Str(s_t2),
                           !["photo_link"] = Str(s_photo)],
   [art_target_base EXCEPT !["apprx_latitude"] = Num(95)],
   [art_target_base EXCEPT !["apprx_latitude"] = Str(s_abc)],
   [art_target_base EXCEPT !["side_length"] = Num(0)]}

unavailability_row(id) ==
  [f \in {"unique_target_id", "unavailability_start",
          "unavailability_end"} |->
     IF f = "unique_target_id" THEN id ELSE Str(s_date)]

\* the optional unavailability sheet: absent, or rows about the first target
Unavailabilities ==
  {[present |-> FALSE, rows |-> <<>>]}
    \cup {[present |-> TRUE,
            rows |-> [k \in 1..n |-> unavailability_row(Str(s_t1))]] :
            n \in 1..MaxRows}

NatSurveyRows ==
  {nat_survey_base,
   [nat_survey_base EXCEPT !["survey_stop"] = Str(s_dash)],
   [nat_survey_base EXCEPT !["survey_start"] = Str(s_soon)],
   [nat_survey_base EXCEPT !["survey_start"] = NaN]}

ArtSurveyRows ==
  {art_survey_base,
   [art_survey_base EXCEPT !["photo_link"] = Str(s_local)],
   [art_survey_base EXCEPT !["lat"] = Num(95)],
   [art_survey_base EXCEPT !["duration"] = Str(s_dur2)],
   [art_survey_base EXCEPT !["duration"] = NaN],
   [art_survey_base EXCEPT !["lat"] = Num(95),
                           !["duration"] = Str(s_dur2)]}

(***************************************************************************)
(* The ingest command: ingest_calibration_info                             *)
(***************************************************************************)
\* an exception leaves the command at once
\* a variant of Raise in which the exception is noted and the run stays
\* where it is
RaiseSwallowed(err) == pc' = pc /\ raised' = err

Raise(err) == pc' = "raised" /\ raised' = err

Insert(coll, records) ==
  /\ store' = [store EXCEPT ![coll] = @ \o records]
  /\ db_calls' = Append(db_calls,
                        [coll |-> coll, n |-> Len(records), op |-> "insert"])

RECURSIVE AppendN(_, _, _)
AppendN(seq, x, n) == IF n = 0 THEN seq ELSE AppendN(Append(seq, x), x, n - 1)

\* a variant of upload_license_returns_None that leaves the mode out
upload_license_ignores_mode(mode, file) == ~PyTruthy(file)

\* "if self.validation_mode or not license_file: return None"
upload_license_returns_None(mode, file) == mode \/ ~PyTruthy(file)

\* license_url = ingester.upload_license(license_file)
UploadLicense ==
  /\ pc = "start"
  /\ UNCHANGED <<ingesterVars, sheet, printed, store, db_calls, staged,
                 site_ids, target_type>>
  /\ IF upload_license_returns_None(validation_mode, license_file)
     THEN /\ license_url' = None
          /\ pc' = "ingest_sites"
          /\ UNCHANGED <<posts, raised>>
     ELSE \E wp \in WordPress :
            IF get_folder_id(wp) # NoError
            THEN /\ Raise(get_folder_id(wp))
                 /\ UNCHANGED <<posts, license_url>>
            ELSE /\ posts' = Append(posts, "license")
                 /\ IF upload_file_raised(wp) # NoError
                    THEN Raise(upload_file_raised(wp))
                         /\ UNCHANGED license_url
                    ELSE /\ license_url' = Str(s_url)
                         /\ pc' = "ingest_sites"
                         /\ UNCHANGED raised

\* site_ids = ingester.ingest_sites(calibration_site_xls, license_url)
IngestSites ==
  /\ pc = "ingest_sites"
  /\ UNCHANGED <<ingesterVars, posts, staged, license_url, target_type>>
  /\ \E rows \in Sheets(site_base, SiteRows) : \E net \in NetsFor(rows) :
       LET df == read_sites(rows)
           events == validate_sites(df, net)
           r == Report(events, validation_mode, printed)
           norm == site_normalised(df)
           gdf == [k \in 1..Len(df) |->
                     [f \in DOMAIN site_gdf(norm)[k] \cup {"license_url"} |->
                        IF f = "license_url" THEN license_url
                        ELSE site_gdf(norm)[k][f]]]
       IN
       /\ sheet' = Sheet("site", rows, net, df, events)
       /\ printed' = r.printed
       /\ CASE r.raised # NoError ->
                 Raise(r.raised) /\ UNCHANGED <<store, db_calls, site_ids>>
            [] r.raised = NoError /\ validation_mode ->
                 /\ site_ids' = <<>>
                 /\ pc' = "ingest_targets"
                 /\ UNCHANGED <<raised, store, db_calls>>
            [] OTHER ->
                 IF site_gdf_raised(norm) # NoError
                 THEN Raise(site_gdf_raised(norm))
                      /\ UNCHANGED <<store, db_calls, site_ids>>
                 ELSE IF site_geometry_raised(norm) # NoError
                 THEN Raise(site_geometry_raised(norm))
                      /\ UNCHANGED <<store, db_calls, site_ids>>
                 ELSE /\ IF Len(gdf) > 0
                         THEN Insert("calibration_sites", gdf)
                         ELSE UNCHANGED <<store, db_calls>>
                      /\ site_ids' = [k \in 1..Len(gdf) |->
                                        gdf[k]["short_site_identifier"]]
                      /\ pc' = "ingest_targets"
                      /\ UNCHANGED raised

\* target_type = ingester.ingest_targets(calibration_site_xls), when the
\* workbook has a "dt" sheet: ingest_nat_targets
IngestNatTargets ==
  /\ pc = "ingest_targets"
  /\ UNCHANGED <<ingesterVars, posts, staged, license_url, site_ids>>
  /\ \E rows \in Sheets(nat_target_base, NatTargetRows) :
       LET df == read_nat_targets(rows)
           events == validate_nat_targets(df)
           r == Report(events, validation_mode, printed)
       IN
       /\ sheet' = Sheet("dt", rows, NoNet, df, events)
       /\ printed' = r.printed
       /\ IF r.raised # NoError
          THEN Raise(r.raised) /\ UNCHANGED <<store, db_calls, target_type>>
          ELSE /\ IF ~validation_mode /\ Len(df) > 0
                  THEN Insert("calibration_nat_targets",
                              Records(df, LAMBDA c : c))
                  ELSE UNCHANGED <<store, db_calls>>
               /\ target_type' = "natural"
               /\ pc' = "ingest_surveys"
               /\ UNCHANGED raised

\* ... when it has no "dt" sheet but a "cr" sheet, with or without the
\* optional unavailability sheet: ingest_art_targets
IngestArtTargets ==
  /\ pc = "ingest_targets"
  /\ UNCHANGED <<ingesterVars, license_url, site_ids>>
  /\ \E rows \in Sheets(art_target_base, ArtTargetRows) :
       LET df == read_art_targets_df(rows)
           events == validate_art_targets(df)
           r == Report(events, validation_mode, printed)
       IN
       /\ sheet' = Sheet("cr", rows, NoNet, df, events)
       /\ printed' = r.printed
       /\ CASE r.raised # NoError ->
                 Raise(r.raised)
                 /\ UNCHANGED <<store, db_calls, posts, staged, target_type>>
            [] r.raised = NoError /\ validation_mode ->
                 /\ target_type' = "artificial"
                 /\ pc' = "ingest_surveys"
                 /\ UNCHANGED <<raised, store, db_calls, posts, staged>>
            [] OTHER ->
                 \E wp \in WordPress, unavailability \in Unavailabilities :
                 LET up == upload_photos(df, wp)
                     merged == IF unavailability.present
                               THEN merge_unavailability(up.df,
                                                         unavailability.rows)
                               ELSE up.df
                 IN
                 /\ posts' = AppendN(posts, "photo", up.posted)
                 /\ staged' = staged + up.staged
                 /\ IF up.raised # NoError
                    THEN Raise(up.raised)
                         /\ UNCHANGED <<store, db_calls, target_type>>
                    ELSE /\ IF Len(merged) > 0
                            THEN Insert("calibration_targets",
                                        Records(merged, art_target_record))
                            ELSE UNCHANGED <<store, db_calls>>
                         /\ target_type' = "artificial"
                         /\ pc' = "ingest_surveys"
                         /\ UNCHANGED raised

\* ... when it has neither: reading "cr" raises ValueError
IngestNoTargets ==
  /\ pc = "ingest_targets"
  /\ Raise(ExcEv("ValueError"))
  /\ UNCHANGED <<ingesterVars, sheet, printed, remoteVars, localVars>>

\* a variant of ingest_surveys_kind that takes the artificial branch whatever
\* was detected
ingest_surveys_always_artificial(detected) == "surveys"

\* ingest_surveys: the survey sheet read for the detected target kind
ingest_surveys_kind(detected) ==
  CASE detected = "natural" -> "nat_surveys"
    [] detected = "artificial" -> "surveys"
    [] OTHER -> "none"

\* ingester.ingest_surveys(calibration_site_xls, target_type)
IngestNatSurveys ==
  /\ pc = "ingest_surveys"
  /\ ingest_surveys_kind(target_type) = "nat_surveys"
  /\ UNCHANGED <<ingesterVars, posts, staged, localVars>>
  /\ \E rows \in Sheets(nat_survey_base, NatSurveyRows) :
       LET df == read_nat_surveys_df(rows)
           events == validate_nat_surveys(df)
           r == Report(events, validation_mode, printed)
           gdf == ReplaceCells(df, dash_to_None)
       IN
       /\ sheet' = Sheet("nat_surveys", rows, NoNet, df, events)
       /\ printed' = r.printed
       /\ IF r.raised # NoError
          THEN Raise(r.raised) /\ UNCHANGED <<store, db_calls>>
          ELSE /\ IF ~validation_mode /\ Len(gdf) > 0
                  THEN Insert("calibration_nat_surveys",
                              Records(gdf, survey_record))
                  ELSE UNCHANGED <<store, db_calls>>
               /\ pc' = "upload_self_assessment_file"
               /\ UNCHANGED raised

IngestArtSurveys ==
  /\ pc = "ingest_surveys"
  /\ ingest_surveys_kind(target_type) = "surveys"
  /\ UNCHANGED <<ingesterVars, localVars>>
  /\ \E rows \in Sheets(art_survey_base, ArtSurveyRows) :
       LET df == read_art_surveys_df(rows)
           events == art_surveys_pass(rows)
           r == Report(events, validation_mode, printed)
       IN
       /\ sheet' = Sheet("surveys", rows, NoNet, df, events)
       /\ printed' = r.printed
       /\ CASE r.raised # NoError ->
                 Raise(r.raised)
                 /\ UNCHANGED <<store, db_calls, posts, staged>>
            [] r.raised = NoError /\ validation_mode ->
                 /\ pc' = "upload_self_assessment_file"
                 /\ UNCHANGED <<raised, store, db_calls, posts, staged>>
            [] OTHER ->
                 \E wp \in WordPress :
                 LET up == upload_photos(df, wp) IN
                 /\ posts' = AppendN(posts, "photo", up.posted)
                 /\ staged' = staged + up.staged
                 /\ IF up.raised # NoError
                    THEN Raise(up.raised) /\ UNCHANGED <<store, db_calls>>
                    ELSE /\ IF Len(up.df) > 0
                            THEN Insert("calibration_surveys",
                                        Records(up.df, survey_record))
                            ELSE UNCHANGED <<store, db_calls>>
                         /\ pc' = "upload_self_assessment_file"
                         /\ UNCHANGED raised

\* ingester.upload_self_assessment_file(self_assessment_pdf)
UploadSelfAssessmentFile ==
  /\ pc = "upload_self_assessment_file"
  /\ UNCHANGED <<ingesterVars, sheet, printed, store, db_calls, staged,
                 localVars>>
  /\ IF validation_mode
     THEN pc' = "upload_form" /\ UNCHANGED <<posts, raised>>
     ELSE \E wp \in WordPress :
            IF get_folder_id(wp) # NoError
            THEN Raise(get_folder_id(wp)) /\ UNCHANGED posts
            ELSE /\ posts' = Append(posts, "self assessment")
                 /\ IF upload_file_raised(wp) # NoError
                    THEN Raise(upload_file_raised(wp))
                    ELSE pc' = "upload_form" /\ UNCHANGED raised

\* update_collection(SITES_COLLECTION, {"form_url": form_url},
\*                   f"short_site_identifier=eq.{site_id}")
set_form_url(records, site_id, form_url) ==
  [k \in 1..Len(records) |->
     IF records[k]["short_site_identifier"] = site_id
     THEN [f \in DOMAIN records[k] \cup {"form_url"} |->
             IF f = "form_url" THEN form_url ELSE records[k][f]]
     ELSE records[k]]

RECURSIVE set_form_urls(_, _, _)
set_form_urls(records, ids, form_url) ==
  IF ids = <<>> THEN records
  ELSE set_form_urls(set_form_url(records, Head(ids), form_url), Tail(ids),
                     form_url)

\* ingester.upload_form(calibration_site_xls, site_ids)
UploadForm ==
  /\ pc = "upload_form"
  /\ UNCHANGED <<ingesterVars, sheet, printed, staged, localVars>>
  /\ IF validation_mode
     THEN pc' = "done" /\ UNCHANGED <<posts, raised, store, db_calls>>
     ELSE \E wp \in WordPress :
            IF get_folder_id(wp) # NoError
            THEN Raise(get_folder_id(wp))
                 /\ UNCHANGED <<posts, store, db_calls>>
            ELSE /\ posts' = Append(posts, "submission form")
                 /\ IF upload_file_raised(wp) # NoError
                    THEN Raise(upload_file_raised(wp))
                         /\ UNCHANGED <<store, db_calls>>
                    ELSE /\ store' =
                              [store EXCEPT !["calibration_sites"] =
                                 set_form_urls(@, site_ids, Str(s_url))]
                         /\ db_calls' =
                              db_calls \o
                                [k \in 1..Len(site_ids) |->
                                   [coll |-> "calibration_sites", n |-> 1,
                                    op |-> "update"]]
                         /\ pc' = "done"
                         /\ UNCHANGED raised

Next ==
  \/ UploadLicense
  \/ IngestSites
  \/ IngestNatTargets
  \/ IngestArtTargets
  \/ IngestNoTargets
  \/ IngestNatSurveys
  \/ IngestArtSurveys
  \/ UploadSelfAssessmentFile
  \/ UploadForm

Spec == Init /\ [][Next]_vars

(***************************************************************************)
(* Properties                                                              *)
(***************************************************************************)
Range(seq) == {seq[k] : k \in DOMAIN seq}

Absent(v) == v = None \/ v = Str(<<>>)

Inserts == {k \in DOMAIN db_calls : db_calls[k].op = "insert"}

NothingPersisted ==
  /\ db_calls = <<>>
  /\ posts = <<>>
  /\ \A c \in Collections : store[c] = <<>>

\* the failure messages the run has printed or raised
Messages ==
  Range(printed) \cup (IF raised.e = "msg" THEN {raised} ELSE {})

\* C1: in validation mode no validate_* pass and no step of the ingest run
\* raises, whatever the rows hold
C1_ValidationModeNeverRaises == validation_mode => raised = NoError

\* C2: in commit mode, a run that a failed check has aborted has made no
\* insert_into_collection call for any collection
C2_AbortLeavesNoInsert ==
  (~validation_mode /\ pc = "raised" /\ raised.e = "msg") => Inserts = {}

KindOf(coll) ==
  CASE coll = "calibration_sites" -> "site"
    [] coll = "calibration_targets" -> "cr"
    [] coll = "calibration_nat_targets" -> "dt"
    [] coll = "calibration_surveys" -> "surveys"
    [] coll = "calibration_nat_surveys" -> "nat_surveys"

\* C3: in commit mode a step inserts into a collection only when the sheet it
\* has just read is of that collection's kind and its validator met no
\* failure on any row of it, and only rows of that sheet are inserted
C3_InsertOnlyAfterWholeSheetPassed ==
  [][\A c \in Collections :
       Len(store'[c]) > Len(store[c]) =>
         /\ ~validation_mode
         /\ db_calls'[Len(db_calls')] =
              [coll |-> c, n |-> Len(store'[c]) - Len(store[c]),
               op |-> "insert"]
         /\ sheet'.kind = KindOf(c)
         /\ sheet'.events = <<>>
         /\ Len(store'[c]) - Len(store[c]) \in 1..Len(sheet'.df)
         /\ raised' = NoError]_vars

\* a commit run has inserted a two-row target sheet after its site sheet
C3_Witness ==
  /\ ~validation_mode
  /\ pc = "ingest_surveys"
  /\ sheet.kind = "cr" /\ Len(sheet.df) = 2
  /\ Len(store["calibration_targets"]) = 2
  /\ Len(store["calibration_sites"]) > 0

\* C4: in validation mode a full ingest run issues no collection-store write
\* and no media upload, and ingest_sites returns an empty list
C4_ValidationModePersistsNothing ==
  validation_mode => NothingPersisted /\ site_ids = <<>> /\ staged = 0

\* a validation run with a license file given has gone through every step
C4_Witness ==
  /\ validation_mode
  /\ pc = "done"
  /\ license_file # None
  /\ printed # <<>>

\* C5: the ingester is in validation mode exactly when client_id or
\* client_secret is None or empty, the mode never changes during a run, and
\* in validation mode there is no geoDB client
C5_ModeFixedByCredentials ==
  /\ [](validation_mode <=> (Absent(client_id) \/ Absent(client_secret)))
  /\ [](validation_mode => geoDB = "None")
  /\ [][validation_mode' = validation_mode /\ geoDB' = geoDB]_vars

\* a run given only a client_id has ended in validation mode
C5_Witness ==
  /\ validation_mode
  /\ ~Absent(client_id) /\ Absent(client_secret)
  /\ pc = "done"

\* C6: a command given fewer than all four of client_id, client_secret,
\* admin_password and filebird_token runs in validation mode and persists
\* and uploads nothing
C6_AnyOptionMissingPersistsNothing ==
  (Absent(client_id) \/ Absent(client_secret) \/ Absent(admin_password)
     \/ Absent(filebird_token))
    => NothingPersisted

Mandatory(kind) ==
  CASE kind = "site" -> Range(site_mandatory_fields)
    [] kind = "dt" -> Range(nat_target_mandatory_fields)
    [] kind = "cr" -> Range(art_target_mandatory_fields)
    [] kind = "nat_surveys" -> Range(nat_survey_mandatory_fields)
    [] kind = "surveys" -> Range(art_survey_mandatory_fields)
    [] OTHER -> {}

\* C7: a mandatory field that is null or NaN when the validator runs gets a
\* 'missing entry for mandatory field' failure for its row
C7_MissingMandatoryReported ==
  pc = "validated" =>
    \A k \in DOMAIN sheet.df, f \in Mandatory(sheet.kind) :
      sheet.df[k].c[f] \in {None, NaN} =>
        \E m \in Messages :
          /\ m.what = "missing"
          /\ m.row = sheet.df[k].idx + 6
          /\ m.label \in {f, ""}

TagOf(kind) == IF kind = "nat_surveys" THEN "surveys" ELSE kind

\* C8: every failure message of a validator carries the sheet's tag, the
\* row index + 6 of a row of the sheet, and the label of the field
C8_MessagesNameTagRowLabel ==
  pc = "validated" =>
    \A m \in Messages :
      /\ m.tag = TagOf(sheet.kind)
      /\ \E k \in DOMAIN sheet.df : m.row = sheet.df[k].idx + 6
      /\ m.label # ""

\* the label under which a validator reports a numeric field ("" where the
\* message text stops before the label)
LabelOf(kind, f) ==
  CASE kind = "surveys" /\ f = "lat" -> "Latitude (decimal deg)"
    [] kind = "surveys" /\ f = "lon" -> "Longitude (decimal deg)"
    [] kind = "surveys" /\ f = "azimuth_angle" -> "Azimuth angle (decimal deg)"
    [] kind = "surveys" /\ f = "tilt" -> "Tilt angle (decimal deg)"
    [] kind = "surveys" /\ f = "boresight_angle" ->
         "Boresight angle (decimal deg)"
    [] kind = "surveys" /\ f = "accuracy" -> "Pointing accuracy (decimal deg)"
    [] kind = "surveys" /\ f = "position_accuracy" -> "Position accuracy (cm)"
    [] kind = "cr" /\ f = "side_length" -> "Side Length"
    [] kind = "cr" /\ f = "rcs_wavelength" ->
         "Reference RCS measurement wavelength (m)"
    [] kind = "cr" /\ f = "rcs_bandwidth" ->
         "Reference RCS measurement bandwidth (Hz)"
    [] kind = "cr" /\ f = "apprx_azimuth" -> "Approximate Azimuth angle"
    [] kind = "cr" /\ f = "apprx_boresight" -> "Approximate Boresight angle"
    [] OTHER -> ""

RangeFields(kind) ==
  CASE kind = "surveys" ->
         {"lat", "lon", "azimuth_angle", "tilt", "boresight_angle"}
    [] kind = "cr" ->
         {"apprx_latitude", "apprx_longitude", "apprx_azimuth",
          "apprx_boresight"}
    [] OTHER -> {}

InRange(f, v) ==
  /\ v.t = "num"
  /\ CASE f \in {"lat", "apprx_latitude"} -> -90 <= v.n /\ v.n <= 90
       [] f \in {"lon", "apprx_longitude"} -> -180 <= v.n /\ v.n <= 180
       [] f \in {"azimuth_angle", "tilt", "apprx_azimuth"} ->
            0 <= v.n /\ v.n < 360
       [] f \in {"boresight_angle", "apprx_boresight"} ->
            -360 <= v.n /\ v.n <= 360
       [] f \in {"accuracy", "position_accuracy"} -> v.n >= 0
       [] f \in {"side_length", "rcs_wavelength", "rcs_bandwidth"} -> v.n > 0

\* no out-of-range message was printed for field f of row k
RangeCheckPasses(k, f) ==
  ~ \E m \in Range(printed) :
      /\ m.what = "range"
      /\ m.row = sheet.df[k].idx + 6
      /\ m.label = LabelOf(sheet.kind, f)

\* a validation-mode pass that ran to its end
PassCompleted(kinds) ==
  /\ pc = "validated"
  /\ validation_mode
  /\ raised = NoError
  /\ sheet.kind \in kinds

\* the check of field f of row k passes exactly when its number is in range;
\* fields reported under the same label are told apart by taking the rows
\* where the others are in range
PassesIffInRange(fields) ==
  \A k \in DOMAIN sheet.df, f \in fields :
    LET r == sheet.df[k].c IN
    (/\ r[f].t = "num"
     /\ \A g \in fields \ {f} :
          LabelOf(sheet.kind, g) = LabelOf(sheet.kind, f) => InRange(g, r[g]))
      => (RangeCheckPasses(k, f) <=> InRange(f, r[f]))

\* C9: for surveys (lat, lon, azimuth, tilt, boresight) and artificial
\* targets (approximate lat, lon, azimuth, boresight) the range check of a
\* numeric value passes exactly when the value is in the field's interval
C9_AnglesPassIffInRange ==
  PassCompleted({"surveys", "cr"}) => PassesIffInRange(RangeFields(sheet.kind))

BoundFields(kind) ==
  CASE kind = "surveys" -> {"accuracy", "position_accuracy"}
    [] kind = "cr" -> {"side_length", "rcs_wavelength", "rcs_bandwidth"}
    [] OTHER -> {}

\* C10: a survey's pointing and position accuracy pass exactly when >= 0; an
\* artificial target's side length, RCS wavelength and RCS bandwidth pass
\* exactly when > 0
C10_BoundsPassIffWithin ==
  PassCompleted({"surveys", "cr"}) => PassesIffInRange(BoundFields(sheet.kind))

\* C11: a sheet with exactly one defective cell makes a validation-mode
\* pass complete with exactly one diagnostic, about the defective row, and
\* makes a commit-mode pass raise a failure message about that row
C11_OneDefectOneDiagnostic ==
  (pc = "validated" /\ sheet.events # <<>>) =>
    IF validation_mode
    THEN /\ raised = NoError
         /\ Len(printed) = 1
         /\ \E k \in DOMAIN sheet.df : printed[1].row = sheet.df[k].idx + 6
    ELSE /\ raised.e = "msg"
         /\ \E k \in DOMAIN sheet.df : raised.row = sheet.df[k].idx + 6


(***************************************************************************)
(* The unavailability command: each step is one run of                     *)
(* ingest_unavailability_info on an unavailability-only workbook, against  *)
(* the targets that earlier ingests left in calibration_targets.           *)
(***************************************************************************)
s_date2 == <<"2", "0", "2", "2", "-", "0", "2", "-", "0", "2">>
s_date3 == <<"2", "0", "2", "3", "-", "0", "3", "-", "0", "3">>

\* the number of unavailability workbooks ingested one after the other
MaxBatches == 2

\* the unique target ids of the workbooks, in ascending order
TargetIds == <<Str(s_t1), Str(s_t2)>>

unavailability_period(id, start, end) ==
  [unavailability_end |-> end, unavailability_start |-> start,
   unique_target_id |-> id]

UnavailabilityRows ==
  {unavailability_period(Str(s_t1), Str(s_date), Str(s_date2)),
   unavailability_period(Str(s_t1), Str(s_date2), Str(s_date3)),
   unavailability_period(Str(s_t2), Str(s_date3), Str(s_date3))}

\* the workbooks: a first row of any kind, then rows about the first target
UnavailabilityBatches ==
  Sheets(unavailability_period(Str(s_t1), Str(s_date2), Str(s_date3)),
         UnavailabilityRows)

\* the columns of a stored target that the command reads and writes
stored_target(id, start, end, forms) ==
  [unavailability_end |-> end, unavailability_forms |-> forms,
   unavailability_start |-> start, unique_target_id |-> id]

\* a target as an earlier ingest left it: without unavailability columns,
\* or with the periods of the workbook it came from
StoredTargets(id) ==
  {stored_target(id, None, None, None),
   stored_target(id, List(<<Str(s_date)>>), List(<<Str(s_date)>>), None)}

\* groupby("unique_target_id", as_index=False).agg(list): one row per
\* target, keys sorted, the periods of a target in sheet order
groupby_unique_target_id(batch) ==
  LET ids == SelectSeq(TargetIds,
                       LAMBDA id : has_unavailability(batch, id))
  IN [k \in 1..Len(ids) |->
        [unavailability_end |->
           unavailability_of(batch, ids[k], "unavailability_end"),
         unavailability_start |->
           unavailability_of(batch, ids[k], "unavailability_start"),
         unique_target_id |-> ids[k]]]

\* the truth value of a stored list column: null and [] are false
ListTruthy(v) == v # None /\ v.items # <<>>

\* "previous[col][0] + unavailabilities[col][0] if previous[col][0]
\*  else unavailabilities[col][0]": the batch side is row 0 of the grouped
\* frame whatever the row of the loop
new_unavailability(previous, groups, col) ==
  IF ListTruthy(previous[col])
  THEN List(previous[col].items \o groups[1][col].items)
  ELSE groups[1][col]

new_unavailability_forms(previous, form_url) ==
  IF previous["unavailability_forms"] = None
  THEN List(<<form_url>>)
  ELSE List(previous["unavailability_forms"].items \o <<form_url>>)

\* the loop of ingest_unavailabilities from row k of the grouped frame on:
\* the stored targets afterwards, the update calls made, what is raised
RECURSIVE update_unavailabilities(_, _, _, _, _)
update_unavailabilities(records, groups, k, form_url, n) ==
  IF k > Len(groups)
  THEN [n |-> n, raised |-> NoError, records |-> records]
  ELSE
    LET id == groups[k]["unique_target_id"]
        found == SelectSeq(records, LAMBDA x : x["unique_target_id"] = id)
    IN
    IF found = <<>>
    THEN [n |-> n, raised |-> ExcEv("KeyError"), records |-> records]
    ELSE
      LET previous == found[1]
          updated ==
            [j \in 1..Len(records) |->
               IF records[j]["unique_target_id"] = id
               THEN [records[j] EXCEPT
                       !["unavailability_start"] =
                          new_unavailability(previous, groups,
                                             "unavailability_start"),
                       !["unavailability_end"] =
                          new_unavailability(previous, groups,
                                             "unavailability_end"),
                       !["unavailability_forms"] =
                          new_unavailability_forms(previous, form_url)]
               ELSE records[j]]
      IN update_unavailabilities(updated, groups, k + 1, form_url, n + 1)

\* the state after Ingester(...) is constructed by the unavailability
\* command, whose client_id and client_secret options are required
UnavailabilityInit ==
  /\ client_id = Str(s_id)
  /\ client_secret = Str(s_id)
  /\ admin_password \in {None, Str(s_id)}
  /\ filebird_token = Str(s_id)
  /\ validation_mode = validation_mode_of(client_id, client_secret)
  /\ geoDB = IF validation_mode THEN "None" ELSE "GeoDBClient"
  /\ license_file = None
  /\ pc = "start"
  /\ sheet = Sheet("none", <<>>, NoNet, <<>>, <<>>)
  /\ printed = <<>>
  /\ raised = NoError
  /\ \E first \in StoredTargets(Str(s_t1)) :
       \E rest \in {<<>>} \cup {<<t>> : t \in StoredTargets(Str(s_t2))} :
         store = [c \in Collections |->
                    IF c = "calibration_targets" THEN <<first>> \o rest
                    ELSE <<>>]
  /\ db_calls = <<>>
  /\ posts = <<>>
  /\ staged = 0
  /\ license_url = None
  /\ site_ids = <<>>
  /\ target_type = "None"

\* ingester.ingest_unavailabilities(unavailability_xls), one run of the
\* command
IngestUnavailabilities ==
  /\ pc \in {"start", "done", "raised"}
  /\ Len(posts) < MaxBatches
  /\ UNCHANGED <<ingesterVars, staged, localVars>>
  /\ printed' = <<>>
  /\ \E batch \in UnavailabilityBatches, wp \in WordPress :
       LET groups == groupby_unique_target_id(batch)
           loop == update_unavailabilities(store["calibration_targets"],
                                           groups, 1, Str(s_url), 0)
       IN
       /\ sheet' = Sheet("unavailability", batch, NoNet,
                         [k \in 1..Len(groups) |->
                            [c |-> groups[k], idx |-> k - 1]], <<>>)
       /\ IF get_folder_id(wp) # NoError
          THEN /\ Raise(get_folder_id(wp))
               /\ UNCHANGED <<posts, store, db_calls>>
          ELSE
            /\ posts' = Append(posts, "unavailability form")
            /\ IF upload_file_raised(wp) # NoError
               THEN /\ Raise(upload_file_raised(wp))
                    /\ UNCHANGED <<store, db_calls>>
               ELSE
                 /\ store' = [store EXCEPT
                                !["calibration_targets"] = loop.records]
                 /\ db_calls' =
                      AppendN(db_calls,
                              [coll |-> "calibration_targets", n |-> 1,
                               op |-> "update"], loop.n)
                 /\ IF loop.raised # NoError
                    THEN Raise(loop.raised)
                    ELSE pc' = "done" /\ raised' = NoError

UnavailabilityNext == IngestUnavailabilities

UnavailabilitySpec == UnavailabilityInit /\ [][UnavailabilityNext]_vars

\* the stored record of a target
StoredTarget(records, id) ==
  LET found == SelectSeq(records, LAMBDA x : x["unique_target_id"] = id)
  IN found[1]

\* a stored list column read as a sequence: null is the empty list
Periods(v) == IF v = None THEN <<>> ELSE v.items

\* C12: after a run of ingest_unavailabilities that completes, each target
\* of the batch has as its stored unavailability_start and
\* unavailability_end lists its previous lists followed by its own
\* periods of the batch, in input order
C12_UnavailabilityAccumulates ==
  [][(pc' = "done" /\ sheet'.kind = "unavailability") =>
       LET batch == sheet'.raw
       IN \A k \in 1..Len(batch) :
            \A col \in {"unavailability_start", "unavailability_end"} :
              LET id == batch[k]["unique_target_id"]
              IN Periods(StoredTarget(store'["calibration_targets"],
                                      id)[col])
                 = Periods(StoredTarget(store["calibration_targets"],
                                        id)[col])
                   \o unavailability_of(batch, id, col).items]_vars


\* the steps of ingest_calibration_info in the order of the command
StepOrder ==
  <<"start", "ingest_sites", "ingest_targets", "ingest_surveys",
    "upload_self_assessment_file", "upload_form", "done">>

StepIndex(p) == CHOOSE k \in DOMAIN StepOrder : StepOrder[k] = p

\* the media uploads and the database calls that belong to a step
PostsOfStep(p) ==
  CASE p = "start" -> {"license"}
    [] p \in {"ingest_targets", "ingest_surveys"} -> {"photo"}
    [] p = "upload_self_assessment_file" -> {"self assessment"}
    [] p = "upload_form" -> {"submission form"}
    [] OTHER -> {}

CallsOfStep(p, detected) ==
  CASE p = "ingest_sites" -> {<<"calibration_sites", "insert">>}
    [] p = "ingest_targets" -> {<<"calibration_targets", "insert">>,
                                <<"calibration_nat_targets", "insert">>}
    [] p = "ingest_surveys" /\ detected = "artificial" ->
         {<<"calibration_surveys", "insert">>}
    [] p = "ingest_surveys" /\ detected = "natural" ->
         {<<"calibration_nat_surveys", "insert">>}
    [] p = "upload_form" -> {<<"calibration_sites", "update">>}
    [] OTHER -> {}

Added(before, after) == SubSeq(after, Len(before) + 1, Len(after))

Extends(before, after) ==
  Len(before) <= Len(after) /\ SubSeq(after, 1, Len(before)) = before

\* C13: every step of an ingest run is taken from the step before it in the
\* order license, sites, targets, surveys of the detected kind,
\* self-assessment document, submission form; it makes only the uploads and
\* database calls of its own step; the form step updates form_url once per
\* site id returned by the site step, on the sites with those ids; and no
\* step follows a raise
C13_StepsInOrder ==
  [][/\ pc \notin {"raised", "done"}
     /\ pc' = "raised" \/ pc' = StepOrder[StepIndex(pc) + 1]
     /\ (pc' = "raised") <=> (raised' # NoError)
     /\ raised = NoError
     /\ Extends(posts, posts')
     /\ Range(Added(posts, posts')) \subseteq PostsOfStep(pc)
     /\ Extends(db_calls, db_calls')
     /\ \A k \in DOMAIN Added(db_calls, db_calls') :
          <<Added(db_calls, db_calls')[k].coll,
            Added(db_calls, db_calls')[k].op>>
            \in CallsOfStep(pc, target_type)
     /\ (pc = "upload_form" /\ pc' = "done" /\ ~validation_mode) =>
          /\ Len(db_calls') = Len(db_calls) + Len(site_ids)
          /\ "submission form" \in Range(Added(posts, posts'))
          /\ \A k \in DOMAIN store'["calibration_sites"] :
               LET rec == store'["calibration_sites"][k]
               IN rec["short_site_identifier"] \in Range(site_ids) =>
                    /\ "form_url" \in DOMAIN rec
                    /\ rec["form_url"] = Str(s_url)]_vars

C13_Witness ==
  /\ pc = "done"
  /\ ~validation_mode
  /\ Len(site_ids) = MaxRows
  /\ "license" \in Range(posts)
  /\ \E k \in DOMAIN db_calls : db_calls[k].coll = "calibration_surveys"
  /\ \A k \in DOMAIN store["calibration_sites"] :
       "form_url" \in DOMAIN store["calibration_sites"][k]


\* a decimal number as text: optional sign, digits, optional fraction
IsDecimal(s) ==
  LET parts == Split(s, ".")
  IN /\ Len(parts) \in {1, 2}
     /\ AllDigits(Unsigned(parts[1]))
     /\ Len(parts) = 2 => AllDigits(parts[2])

\* the kind of content of a centroid cell as the sheet gives it
CentroidClass(v) ==
  CASE v.t = "nan" \/ (v.t = "str" /\ v.s = <<>>) -> "blank"
    [] v.t = "str" /\ Len(Split(v.s, ",")) = 2
         /\ IsDecimal(Strip(Split(v.s, ",")[1]))
         /\ IsDecimal(Strip(Split(v.s, ",")[2])) -> "pair"
    [] v.t = "str" /\ StartsWith(v.s, s_POINT) -> "wkt"
    [] OTHER -> "other"

\* the centroid the rule gives a row
CentroidByRule(r) ==
  CASE CentroidClass(r["centroid"]) = "blank" ->
         Str(CentroidWkt(r["boundaries"].s))
    [] CentroidClass(r["centroid"]) = "pair" ->
         Str(s_POINT \o <<"(">>
             \o Strip(Split(r["centroid"].s, ",")[2]) \o <<" ">>
             \o Strip(Split(r["centroid"].s, ",")[1]) \o <<")">>)
    [] OTHER -> r["centroid"]

\* the site step has read its sheet and the validator met no failure
SitesStepPassedValidation ==
  /\ sheet.kind = "site"
  /\ sheet.events = <<>>
  /\ pc \in {"ingest_targets", "raised"}

\* C14: for the rows of a site sheet, a blank centroid is stored as the WKT
\* centroid of the boundary polygon, a "lat, lon" pair as "POINT(lon lat)",
\* a value beginning with POINT unchanged; a row with any other content is
\* a failure about 'centroid' for that row, printed in validation mode and
\* raised in commit mode
C14_CentroidRule ==
  SitesStepPassedValidation =>
    /\ \A k \in DOMAIN sheet.df :
         CentroidClass(sheet.df[k].c["centroid"]) = "other" =>
           \E m \in Messages : /\ m.label = "centroid"
                               /\ m.row = sheet.df[k].idx + 6
    /\ (~validation_mode /\ pc = "ingest_targets") =>
         /\ Len(store["calibration_sites"]) = Len(sheet.df)
         /\ \A k \in DOMAIN sheet.df :
              store["calibration_sites"][k]["centroid"]
                = CentroidByRule(sheet.df[k].c)


\* s is three integers separated by two colons
ThreeIntegers(s) ==
  \E a, b \in 1..Len(s) :
    /\ a < b
    /\ \A j \in 1..Len(s) : s[j] = ":" <=> j \in {a, b}
    /\ IsIntStr(SubSeq(s, 1, a - 1))
    /\ IsIntStr(SubSeq(s, a + 1, b - 1))
    /\ IsIntStr(SubSeq(s, b + 1, Len(s)))

DurationFailure(k) ==
  MsgEv("surveys", sheet.df[k].idx + 6,
        "GNSS measurement duration (hh:mm:ss)", "format")

\* C15: in a pass over an artificial-survey sheet a duration given as text
\* is accepted exactly when it is three integers separated by ':'; any
\* other text gives the invalid-format failure for the duration field of
\* that row, printed in validation mode and raised in commit mode
C15_DurationThreeIntegers ==
  (pc = "validated" /\ sheet.kind = "surveys") =>
    \A k \in DOMAIN sheet.df :
      LET v == sheet.df[k].c["duration"] IN
      v.t = "str" =>
        IF ThreeIntegers(v.s)
        THEN DurationFailure(k) \notin Range(sheet.events) \cup Messages
        ELSE /\ DurationFailure(k) \in Range(sheet.events)
             /\ validation_mode =>
                  DurationFailure(k) \in Range(printed) /\ raised = NoError
             /\ ~validation_mode => raised = DurationFailure(k)

C15_Witness ==
  /\ pc = "validated"
  /\ sheet.kind = "surveys"
  /\ ~validation_mode
  /\ sheet.df # <<>>
  /\ sheet.df[1].c["duration"] = Str(s_dur2)
  /\ raised = DurationFailure(1)


\* the open-ended date fields, whose '-' means "ongoing"
OpenEndedFields == {"active_until", "period_stop"}

\* the collection whose insert was made from the sheet now in hand
JustInserted(coll) ==
  /\ ~validation_mode
  /\ sheet.kind = KindOf(coll)
  /\ db_calls # <<>>
  /\ db_calls[Len(db_calls)] =
       [coll |-> coll, n |-> Len(sheet.df), op |-> "insert"]
  /\ Len(store[coll]) = Len(sheet.df)

\* C16: in the records handed to persistence, of every kind, a cell that
\* was '-' or blank (NaN) in the sheet is null, for every field other than
\* the open-ended date fields; and normalising a null leaves it null
C16_SentinelsBecomeNull ==
  /\ \A coll \in Collections :
       JustInserted(coll) =>
         \A k \in DOMAIN sheet.df :
           \A f \in (DOMAIN sheet.df[k].c \cap DOMAIN store[coll][k])
                      \ OpenEndedFields :
             sheet.df[k].c[f] \in {NaN, None, Str(s_dash)} =>
               store[coll][k][f] = None
  /\ dash_to_None(None) = None
  /\ nan_to_None(None) = None


(***************************************************************************)
(* Target ingestion over several runs against one database: each step is  *)
(* ingest_targets of an ingest run or update_targets of an update run, in  *)
(* commit mode, on a workbook whose target ids are distinct.               *)
(***************************************************************************)
TargetWorkbooks(base) ==
  {<<base>>,
   <<[base EXCEPT !["unique_target_id"] = Str(s_t2)]>>,
   <<base, [base EXCEPT !["unique_target_id"] = Str(s_t2)]>>}

\* update_targets: the rows whose id is not among the unique_target_id
\* values of calibration_targets
not_existing(rows, existing) ==
  SelectSeq(rows, LAMBDA r :
    \A k \in DOMAIN existing :
      existing[k]["unique_target_id"] # r["unique_target_id"])

\* do_targets_ingestion on a "dt" sheet; next is the step of the command
\* that follows
do_nat_targets_ingestion(rows, next) ==
  LET df == read_nat_targets(rows)
      events == validate_nat_targets(df)
      r == Report(events, validation_mode, <<>>)
  IN
  /\ sheet' = Sheet("dt", rows, NoNet, df, events)
  /\ printed' = r.printed
  /\ UNCHANGED <<posts, staged>>
  /\ IF r.raised # NoError
     THEN Raise(r.raised) /\ UNCHANGED <<store, db_calls, target_type>>
     ELSE /\ IF Len(df) > 0
             THEN Insert("calibration_nat_targets", Records(df, LAMBDA c : c))
             ELSE UNCHANGED <<store, db_calls>>
          /\ target_type' = "natural"
          /\ pc' = next
          /\ raised' = NoError

\* do_targets_ingestion on a "cr" sheet without unavailability sheet
do_art_targets_ingestion(rows, next) ==
  LET df == read_art_targets_df(rows)
      events == validate_art_targets(df)
      r == Report(events, validation_mode, <<>>)
  IN
  /\ sheet' = Sheet("cr", rows, NoNet, df, events)
  /\ printed' = r.printed
  /\ IF r.raised # NoError
     THEN /\ Raise(r.raised)
          /\ UNCHANGED <<store, db_calls, posts, staged, target_type>>
     ELSE \E wp \in WordPress :
            LET up == upload_photos(df, wp) IN
            /\ posts' = AppendN(posts, "photo", up.posted)
            /\ staged' = staged + up.staged
            /\ IF up.raised # NoError
               THEN Raise(up.raised)
                    /\ UNCHANGED <<store, db_calls, target_type>>
               ELSE /\ IF Len(up.df) > 0
                       THEN Insert("calibration_targets",
                                   Records(up.df, art_target_record))
                       ELSE UNCHANGED <<store, db_calls>>
                    /\ target_type' = "artificial"
                    /\ pc' = next
                    /\ raised' = NoError

\* the state after Ingester(...) is constructed with both credentials,
\* before the first run has written to the database
TargetsInit ==
  /\ Init
  /\ client_id = Str(s_id)
  /\ client_secret = Str(s_id)
  /\ admin_password = Str(s_id)
  /\ license_file = None

\* ingester.ingest_targets(calibration_site_xls) of an ingest run
IngestTargets ==
  /\ pc \in {"start", "done", "raised"}
  /\ Len(db_calls) < MaxBatches
  /\ UNCHANGED <<ingesterVars, license_url, site_ids>>
  /\ \/ \E rows \in TargetWorkbooks(nat_target_base) :
          do_nat_targets_ingestion(rows, "done")
     \/ \E rows \in TargetWorkbooks(art_target_base) :
          do_art_targets_ingestion(rows, "done")

\* ingester.update_targets(calibration_site_xls) of an update run
UpdateTargets ==
  /\ pc \in {"start", "done", "raised"}
  /\ Len(db_calls) < MaxBatches
  /\ UNCHANGED <<ingesterVars, license_url, site_ids>>
  /\ \/ \E rows \in TargetWorkbooks(nat_target_base) :
          do_nat_targets_ingestion(
            not_existing(rows, store["calibration_targets"]), "done")
     \/ \E rows \in TargetWorkbooks(art_target_base) :
          do_art_targets_ingestion(
            not_existing(rows, store["calibration_targets"]), "done")

TargetsNext == IngestTargets \/ UpdateTargets

TargetsSpec == TargetsInit /\ [][TargetsNext]_vars

\* C17: after any sequence of ingest and update runs in commit mode, no two
\* records of the artificial and natural target collections together have
\* the same unique target id
C17_TargetIdsUnique ==
  LET all == store["calibration_targets"] \o store["calibration_nat_targets"]
  IN \A i, j \in DOMAIN all :
       i # j => all[i]["unique_target_id"] # all[j]["unique_target_id"]


WebsiteFailure(k) == MsgEv("site", sheet.df[k].idx + 6, "website", "liveness")

\* a website cell that holds an address without scheme
WithoutScheme(w) ==
  w.t = "str" /\ w.s # <<>> /\ w.s # s_nan /\ ~StartsWith(w.s, s_http)

\* C19: for a site website given without scheme, the liveness check fails
\* when both the http:// and the https:// form answer with a status >= 400,
\* and passes when at least one of the two forms answers successfully
C19_WebsiteFailsOnlyIfBothFail ==
  (pc = "validated" /\ sheet.kind = "site") =>
    \A k \in DOMAIN sheet.df :
      WithoutScheme(sheet.df[k].c["website"]) =>
        /\ (sheet.net.http >= 400 /\ sheet.net.https >= 400) =>
             WebsiteFailure(k) \in Range(sheet.events)
        /\ (HttpOk(sheet.net.http) \/ HttpOk(sheet.net.https)) =>
             WebsiteFailure(k) \notin Range(sheet.events)


OpenEndedField(kind) ==
  IF kind = "site" THEN "active_until" ELSE "period_stop"

\* C20: where the sheet gives '-' for an open-ended date field (site
\* active_until, natural-target period_stop), the frame handed to the
\* validator still holds the literal '-' in that cell, and the validator
\* accepts it: no failure is produced for that field of that row
C20_DashSurvivesIntoValidation ==
  (pc = "validated" /\ sheet.kind \in {"site", "dt"}) =>
    \A k \in DOMAIN sheet.df :
      LET f == OpenEndedField(sheet.kind)
          row == sheet.df[k].idx + 6
      IN sheet.raw[sheet.df[k].idx + 1][f] = Str(s_dash) =>
           /\ sheet.df[k].c[f] = Str(s_dash)
           /\ ~ \E m \in Range(sheet.events) :
                  m.e = "msg" /\ m.row = row /\ m.label = f


(***************************************************************************)
(* The template filler: each step is one call of DataFetcher.fetch_data   *)
(* on a list of unique site ids; the answers of the database are chosen   *)
(* freely.                                                                 *)
(***************************************************************************)
w_site_open ==
  <<"(", "s", "h", "o", "r", "t", "_", "s", "i", "t", "e", "_", "i", "d",
    " ", "=", " ", "'">>
w_site_and ==
  <<"'", " ", "A", "N", "D", " ", "p", "r", "i", "m", "a", "r", "y", "_",
    "t", "a", "r", "g", "e", "t", "_", "t", "y", "p", "e", "_", "i", "d",
    " ", "l", "i", "k", "e", " ", "'">>
w_site_close == <<"%", "'", ")">>
w_or == <<" ", "O", "R", " ">>
w_site_name ==
  <<"s", "i", "t", "e", "_", "n", "a", "m", "e", " ", "=", " ", "'">>
w_target_id ==
  <<"t", "a", "r", "g", "e", "t", "_", "i", "d", " ", "=", " ", "'">>
w_quote == <<"'">>

s_visb_at == <<"V", "I", "S", "B", "-", "A", "T">>
s_gnld_dt == <<"G", "N", "L", "D", "-", "D", "T">>
s_some_dt == <<"S", "O", "M", "E", "-", "D", "T">>
s_visby == <<"V", "i", "s", "b", "y">>
s_greenland == <<"G", "r", "e", "e", "n", "l", "a", "n", "d">>
s_cr6 == <<"V", "I", "S", "B", "-", "C", "R", "-", "0", "0", "0", "6">>
s_cr7 == <<"V", "I", "S", "B", "-", "C", "R", "-", "0", "0", "0", "7">>
s_si1 == <<"G", "N", "L", "D", "-", "S", "I", "-", "0", "0", "0", "1">>

\* Python slices s[:n], s[n:] and s[:-n]
SliceTo(s, n) == SubSeq(s, 1, IF Len(s) < n THEN Len(s) ELSE n)
SliceFrom(s, n) == SubSeq(s, n + 1, Len(s))
DropLast(s, n) == SubSeq(s, 1, Len(s) - n)

\* "for i, ssid in enumerate(short_site_ids): sites_where += term + ' OR '"
RECURSIVE sites_where_loop(_)
sites_where_loop(ids) ==
  IF ids = <<>> THEN <<>>
  ELSE w_site_open \o SliceTo(Head(ids), 4) \o w_site_and
         \o SliceFrom(Head(ids), 5) \o w_site_close \o w_or
         \o sites_where_loop(Tail(ids))

\* sites_where = sites_where[:-4]
sites_where(ids) == DropLast(sites_where_loop(ids), 4)

\* "for row in frame.iterrows(): where += f"{column} = '{value}'" + ' OR '"
RECURSIVE column_where_loop(_, _, _)
column_where_loop(rows, prefix, column) ==
  IF rows = <<>> THEN <<>>
  ELSE prefix \o Head(rows)[column] \o w_quote \o w_or
         \o column_where_loop(Tail(rows), prefix, column)

targets_where(sites) ==
  DropLast(column_where_loop(sites, w_site_name, "site_name"), 4)

surveys_where(targets) ==
  DropLast(column_where_loop(targets, w_target_id, "target_id"), 4)

\* what get_collection_pg answers: None, or a frame of rows
NoFrame == [present |-> FALSE, rows |-> <<>>]
Frame(rows) == [present |-> TRUE, rows |-> rows]

UniqueSiteIds == {s_visb_at, s_gnld_dt, s_some_dt}

UniqueSiteIdLists == UNION {[1..n -> UniqueSiteIds] : n \in 1..MaxRows}

SitesAnswers ==
  {NoFrame, Frame(<<>>), Frame(<<[site_name |-> s_visby]>>),
   Frame(<<[site_name |-> s_greenland], [site_name |-> s_visby]>>)}

TargetsAnswers ==
  {NoFrame, Frame(<<>>), Frame(<<[target_id |-> s_cr6]>>),
   Frame(<<[target_id |-> s_cr6], [target_id |-> s_cr7]>>)}

NatTargetsAnswers ==
  {NoFrame, Frame(<<>>), Frame(<<[target_id |-> s_si1]>>)}

\* one get_collection_pg call: the collection, the where clause, the answer
Query(coll, where, answer) ==
  [answer |-> answer, coll |-> coll, op |-> "get", where |-> where]

\* the calls of fetch_data, in order
fetch_data(ids, sites, targets, nat_targets) ==
  LET q_sites == Query("calibration_sites", sites_where(ids), sites)
      q_targets == Query("calibration_targets", targets_where(sites.rows),
                         targets)
      q_nat_targets == Query("calibration_nat_targets",
                             targets_where(sites.rows), nat_targets)
      q_surveys == Query("calibration_surveys", surveys_where(targets.rows),
                         NoFrame)
      q_nat_surveys == Query("calibration_nat_surveys",
                             surveys_where(nat_targets.rows), NoFrame)
  IN
  IF ~sites.present \/ sites.rows = <<>>
  THEN <<q_sites>>
  ELSE <<q_sites, q_targets, q_nat_targets>>
         \o (IF targets.present THEN <<q_surveys>> ELSE <<>>)
         \o (IF nat_targets.present /\ nat_targets.rows # <<>>
             THEN <<q_nat_surveys>> ELSE <<>>)

\* the state after GeoDBClient(...) and DataFetcher(geodb) are constructed
FetchInit ==
  /\ Init
  /\ client_id = Str(s_id)
  /\ client_secret = Str(s_id)
  /\ admin_password = None
  /\ filebird_token = None
  /\ license_file = None

\* DataFetcher(geodb).fetch_data(unique_site_ids)
FetchData ==
  /\ pc = "start"
  /\ \E ids \in UniqueSiteIdLists, sites \in SitesAnswers,
        targets \in TargetsAnswers, nat_targets \in NatTargetsAnswers :
       /\ sheet' = Sheet("unique_site_ids", ids, NoNet, <<>>, <<>>)
       /\ db_calls' = fetch_data(ids, sites, targets, nat_targets)
  /\ pc' = "done"
  /\ UNCHANGED <<ingesterVars, printed, raised, store, posts, staged,
                 localVars>>

FetchNext == FetchData

FetchSpec == FetchInit /\ [][FetchNext]_vars

\* the terms of a where clause joined by " OR ", in order, without a
\* separator at the end
RECURSIVE OrJoin(_)
OrJoin(terms) ==
  IF terms = <<>> THEN <<>>
  ELSE IF Len(terms) = 1 THEN terms[1]
       ELSE terms[1] \o w_or \o OrJoin(Tail(terms))

\* "(short_site_id = 'SSSS' AND primary_target_type_id = 'TT')"
SiteTerm(id) ==
  w_site_open \o SubSeq(id, 1, 4)
    \o <<"'", " ", "A", "N", "D", " ", "p", "r", "i", "m", "a", "r", "y",
         "_", "t", "a", "r", "g", "e", "t", "_", "t", "y", "p", "e", "_",
         "i", "d", " ", "=", " ", "'">>
    \o SubSeq(id, 6, Len(id)) \o <<"'", ")">>

EqualsTerm(column, value) == column \o <<" ", "=", " ", "'">> \o value \o w_quote

QueriesOf(coll) ==
  SelectSeq(db_calls, LAMBDA q : q.coll = coll)

\* C18: fetch_data asks calibration_sites with the " OR "-join, in input
\* order and without trailing separator, of the terms
\* "(short_site_id = 'SSSS' AND primary_target_type_id = 'TT')"; the
\* targets and natural targets are asked by the join of
\* "site_name = '<name>'" over the sites returned, and the surveys by the
\* join of "target_id = '<id>'" over the targets returned
C18_WhereClauses ==
  (pc = "done" /\ sheet.kind = "unique_site_ids") =>
    /\ db_calls[1].coll = "calibration_sites"
    /\ db_calls[1].where =
         OrJoin([k \in DOMAIN sheet.raw |-> SiteTerm(sheet.raw[k])])
    /\ \A q \in Range(QueriesOf("calibration_targets"))
              \cup Range(QueriesOf("calibration_nat_targets")) :
         q.where =
           OrJoin([k \in DOMAIN db_calls[1].answer.rows |->
                     EqualsTerm(<<"s", "i", "t", "e", "_", "n", "a", "m",
                                  "e">>,
                                db_calls[1].answer.rows[k]["site_name"])])
    /\ \A q \in Range(QueriesOf("calibration_surveys")) :
         LET targets == QueriesOf("calibration_targets")[1].answer.rows IN
         q.where =
           OrJoin([k \in DOMAIN targets |->
                     EqualsTerm(<<"t", "a", "r", "g", "e", "t", "_", "i",
                                  "d">>,
                                targets[k]["target_id"])])


\* the classes of checks in the order mandatory presence, type/format,
\* range, liveness
ClassRank(what) ==
  CASE what = "missing" -> 1
    [] what = "format" -> 2
    [] what = "range" -> 3
    [] what = "liveness" -> 4
    [] OTHER -> 5

\* C21: in commit mode the failure raised for a row is of the earliest
\* class, in the order mandatory presence, type/format, range, liveness,
\* among the failures that row has
C21_EarliestClassRaised ==
  (~validation_mode /\ pc = "raised" /\ raised.e = "msg") =>
    \A m \in Range(sheet.events) :
      (m.e = "msg" /\ m.row = raised.row) =>
        ClassRank(raised.what) <= ClassRank(m.what)


\* the collections written for each target kind
TargetCollection(detected) ==
  IF detected = "natural" THEN "calibration_nat_targets"
  ELSE "calibration_targets"

SurveyCollection(detected) ==
  IF detected = "natural" THEN "calibration_nat_surveys"
  ELSE "calibration_surveys"

InsertedInto(before, after) ==
  {Added(before, after)[k].coll : k \in DOMAIN Added(before, after)}

\* C22: the target step reads either the "dt" sheet and detects "natural"
\* or the "cr" sheet and detects "artificial", and writes to the target
\* collection of that kind only; the survey step reads the survey sheet of
\* the detected kind and writes to the survey collection of that kind only;
\* a run never holds targets or surveys of both kinds, and without a
\* detected kind no survey is ingested
C22_OneTargetKindPerRun ==
  /\ [][/\ (pc = "ingest_targets" /\ pc' = "ingest_surveys") =>
            /\ \/ sheet'.kind = "dt" /\ target_type' = "natural"
               \/ sheet'.kind = "cr" /\ target_type' = "artificial"
            /\ InsertedInto(db_calls, db_calls')
                 \subseteq {TargetCollection(target_type')}
        /\ (pc = "ingest_surveys" /\ pc' # pc) =>
            /\ target_type' = target_type
            /\ sheet'.kind =
                 (IF target_type = "natural" THEN "nat_surveys"
                  ELSE "surveys")
            /\ InsertedInto(db_calls, db_calls')
                 \subseteq {SurveyCollection(target_type)}]_vars
  /\ [](store["calibration_targets"] = <<>>
          \/ store["calibration_nat_targets"] = <<>>)
  /\ [](target_type = "natural" =>
          store["calibration_targets"] = <<>>
            /\ store["calibration_surveys"] = <<>>)
  /\ [](target_type = "artificial" =>
          store["calibration_nat_targets"] = <<>>
            /\ store["calibration_nat_surveys"] = <<>>)
  /\ [](target_type = "None" =>
          store["calibration_surveys"] = <<>>
            /\ store["calibration_nat_surveys"] = <<>>)

C22_Witness ==
  /\ pc = "done"
  /\ ~validation_mode
  /\ target_type = "natural"
  /\ store["calibration_nat_targets"] # <<>>
  /\ store["calibration_nat_surveys"] # <<>>


\* the values of a column in the rows of one target, first row first
RECURSIVE InInputOrder(_, _, _)
InInputOrder(rows, id, col) ==
  IF rows = <<>> THEN <<>>
  ELSE (IF Head(rows)["unique_target_id"] = id THEN <<Head(rows)[col]>>
        ELSE <<>>)
         \o InInputOrder(Tail(rows), id, col)

\* C23: the grouped unavailability frame has exactly one row per distinct
\* target identifier of the sheet; the start list and the end list of a
\* target hold exactly the values of its rows, in input order and with
\* duplicates kept, and have the same length
C23_OneListPairPerTarget ==
  sheet.kind = "unavailability" =>
    LET rows == sheet.raw
        groups == [k \in 1..Len(sheet.df) |-> sheet.df[k].c]
    IN
    /\ {groups[k]["unique_target_id"] : k \in 1..Len(groups)}
         = {rows[k]["unique_target_id"] : k \in 1..Len(rows)}
    /\ \A j, k \in 1..Len(groups) :
         groups[j]["unique_target_id"] = groups[k]["unique_target_id"]
           => j = k
    /\ \A k \in 1..Len(groups) :
         /\ \A col \in {"unavailability_start", "unavailability_end"} :
              groups[k][col].items
                = InInputOrder(rows, groups[k]["unique_target_id"], col)
         /\ Len(groups[k]["unavailability_start"].items)
              = Len(groups[k]["unavailability_end"].items)

C23_Witness ==
  /\ sheet.kind = "unavailability"
  /\ Len(sheet.raw) = MaxRows
  /\ Len(sheet.df) = 2
  /\ sheet.raw[1]["unique_target_id"] = Str(s_t2)

C23_WitnessDuplicates ==
  /\ sheet.kind = "unavailability"
  /\ Len(sheet.raw) = 2
  /\ sheet.raw[1] = sheet.raw[2]
  /\ Len(sheet.df) = 1
  /\ Len(sheet.df[1].c["unavailability_start"].items) = 2


\* the point a stored geometry denotes: a point built from coordinates, or
\* the point written as the text "POINT(0 0)"
PointDenoted(g) ==
  IF g = Str(s_point0) THEN Point(Num(0), Num(0)) ELSE g

ArtTargetsCarryOwnPoint ==
  \A r \in Range(store["calibration_targets"]) :
    PointDenoted(r["geometry"])
      = Point(r["apprx_longitude"], r["apprx_latitude"])

\* C24: every stored artificial target has as geometry the point of its own
\* approximate longitude and latitude, and every stored artificial survey
\* the point of its own longitude and latitude
C24_GeometryFromOwnCoordinates ==
  /\ ArtTargetsCarryOwnPoint
  /\ \A r \in Range(store["calibration_surveys"]) :
       PointDenoted(r["geometry"]) = Point(r["lon"], r["lat"])


\* C26: whenever upload_photos has returned or raised, no staging file it
\* created by downloading an http photo link is left on disk
C26_NoStagingFileLeft == staged = 0


\* the stored artificial targets that carry unavailability lists: they were
\* inserted by a run whose workbook has the unavailability sheet
WithUnavailabilitySheet ==
  \E r \in Range(store["calibration_targets"]) :
    "unavailability_start" \in DOMAIN r

\* C30: when a commit-mode run has ingested the "cr" sheet of a workbook
\* with an unavailability sheet, every row of the sheet that passed
\* validation is among the records inserted into calibration_targets
C30_MergeKeepsEveryTarget ==
  (~validation_mode /\ sheet.kind = "cr" /\ pc = "ingest_surveys"
     /\ WithUnavailabilitySheet) =>
    \A k \in 1..Len(sheet.df) :
      \E r \in Range(store["calibration_targets"]) :
        r["unique_target_id"] = sheet.df[k].c["unique_target_id"]


\* C29: every query fetch_data issues on calibration_surveys or
\* calibration_nat_surveys has a where clause that is not empty
C29_SurveysQueryNeverUnfiltered ==
  (pc = "done" /\ sheet.kind = "unique_site_ids") =>
    \A q \in Range(QueriesOf("calibration_surveys"))
               \cup Range(QueriesOf("calibration_nat_surveys")) :
      q.where # <<>>

\* the natural half: calibration_nat_surveys is asked only with a filter
NatSurveysQueryNeverUnfiltered ==
  (pc = "done" /\ sheet.kind = "unique_site_ids") =>
    \A q \in Range(QueriesOf("calibration_nat_surveys")) : q.where # <<>>


(***************************************************************************)
(* An ingest run in commit mode against a sites collection that already    *)
(* holds records of earlier submissions.                                   *)
(***************************************************************************)
s_dt == <<"D", "T">>
s_old_url == <<"h", "t", "t", "p", "s", ":", "/", "/", "o", "l", "d">>
s_visb == <<"V", "I", "S", "B">>

existing_site(short_id, type_code) ==
  [form_url |-> Str(s_old_url),
   primary_target_type_identifier |-> Str(type_code),
   short_site_identifier |-> Str(short_id)]

\* the records of earlier submissions: the first site as a site of
\* distributed targets, and a site no workbook of the run names
ExistingSites ==
  <<existing_site(s_site1, s_dt), existing_site(s_visb, s_tt)>>

\* the state after Ingester(...) is constructed with all credentials
ResubmitInit ==
  /\ client_id = Str(s_id)
  /\ client_secret = Str(s_id)
  /\ admin_password = Str(s_id)
  /\ filebird_token = Str(s_id)
  /\ validation_mode = validation_mode_of(client_id, client_secret)
  /\ geoDB = IF validation_mode THEN "None" ELSE "GeoDBClient"
  /\ license_file \in {None, Str(s_pdf)}
  /\ pc = "start"
  /\ sheet = Sheet("none", <<>>, NoNet, <<>>, <<>>)
  /\ printed = <<>>
  /\ raised = NoError
  /\ store = [c \in Collections |->
                IF c = "calibration_sites" THEN ExistingSites ELSE <<>>]
  /\ db_calls = <<>>
  /\ posts = <<>>
  /\ staged = 0
  /\ license_url = None
  /\ site_ids = <<>>
  /\ target_type = "None"

ResubmitSpec == ResubmitInit /\ [][Next]_vars

\* C28: the site records that were in the sites collection before the run
\* keep their form_url, whatever the run ingests and uploads
C28_OtherSitesKeepFormUrl ==
  \A k \in 1..Len(ExistingSites) :
    store["calibration_sites"][k]["form_url"] = ExistingSites[k]["form_url"]

\* the half about sites with another short identifier
UnnamedSitesKeepFormUrl ==
  \A k \in 1..Len(ExistingSites) :
    ExistingSites[k]["short_site_identifier"]
        \notin {Str(s_site1), Str(s_site2)} => store["calibration_sites"][k] = ExistingSites[k]


(***************************************************************************)
(* The update command: update_sites, update_targets, update_surveys and    *)
(* upload_form of update_calibration_info, against collections that hold   *)
(* the records of earlier submissions.                                     *)
(***************************************************************************)
existing_target(id) == [unique_target_id |-> id]

ExistingTargets == {<<>>, <<existing_target(Str(s_t1))>>}

\* the state after Ingester(...) is constructed by the update command
UpdateInit ==
  /\ client_id \in {None, Str(s_id)}
  /\ client_secret = Str(s_id)
  /\ admin_password = Str(s_id)
  /\ filebird_token = Str(s_id)
  /\ validation_mode = validation_mode_of(client_id, client_secret)
  /\ geoDB = IF validation_mode THEN "None" ELSE "GeoDBClient"
  /\ license_file = None
  /\ pc = "start"
  /\ sheet = Sheet("none", <<>>, NoNet, <<>>, <<>>)
  /\ printed = <<>>
  /\ raised = NoError
  /\ \E art \in ExistingTargets, nat \in ExistingTargets :
       store = [c \in Collections |->
                  CASE c = "calibration_sites" ->
                         <<existing_site(s_site1, s_tt)>>
                    [] c = "calibration_targets" -> art
                    [] c = "calibration_nat_targets" -> nat
                    [] OTHER -> <<>>]
  /\ db_calls = <<>>
  /\ posts = <<>>
  /\ staged = 0
  /\ license_url = None
  /\ site_ids = <<>>
  /\ target_type = "None"

\* existing_site_ids: "a[:7] for a in short_site_identifier + '-' +
\* primary_target_type_identifier"
existing_site_ids(existing) ==
  {SliceTo(existing[k]["short_site_identifier"].s \o <<"-">>
             \o existing[k]["primary_target_type_identifier"].s, 7) :
     k \in DOMAIN existing}

\* gdf[(short_site_identifier + "_" + primary_target_type_identifier)
\*       .isin(existing_site_ids)]
update_sites_isin(gdf, existing) ==
  SelectSeq(gdf, LAMBDA r :
    /\ r["short_site_identifier"].t = "str"
    /\ r["primary_target_type_identifier"].t = "str"
    /\ (r["short_site_identifier"].s \o <<"_">>
          \o r["primary_target_type_identifier"].s)
         \in existing_site_ids(existing))

\* short_site_identifiers = ingester.update_sites(calibration_site_xls)
UpdateSites ==
  /\ pc = "start"
  /\ UNCHANGED <<ingesterVars, posts, staged, license_url, target_type>>
  /\ \E rows \in Sheets(site_base, SiteRows) : \E net \in NetsFor(rows) :
       LET df == read_sites(rows)
           events == validate_sites(df, net)
           r == Report(events, validation_mode, printed)
           norm == site_normalised(df)
           gdf == update_sites_isin(site_gdf(norm),
                                    store["calibration_sites"])
       IN
       /\ sheet' = Sheet("site", rows, net, df, events)
       /\ printed' = r.printed
       /\ CASE r.raised # NoError ->
                 Raise(r.raised) /\ UNCHANGED <<store, db_calls, site_ids>>
            [] r.raised = NoError /\ validation_mode ->
                 \* create_site_gdf returned None; self.geoDB is None
                 Raise(ExcEv("AttributeError"))
                 /\ UNCHANGED <<store, db_calls, site_ids>>
            [] OTHER ->
                 IF site_gdf_raised(norm) # NoError
                 THEN Raise(site_gdf_raised(norm))
                      /\ UNCHANGED <<store, db_calls, site_ids>>
                 ELSE IF site_geometry_raised(norm) # NoError
                 THEN Raise(site_geometry_raised(norm))
                      /\ UNCHANGED <<store, db_calls, site_ids>>
                 ELSE /\ IF Len(gdf) > 0
                         THEN Insert("calibration_sites", gdf)
                         ELSE UNCHANGED <<store, db_calls>>
                      /\ site_ids' = [k \in 1..Len(gdf) |->
                                        gdf[k]["short_site_identifier"]]
                      /\ pc' = "update_targets"
                      /\ UNCHANGED raised

\* list(df["Short Site ID"].dropna())
updated_site_ids(rows) ==
  LET named == SelectSeq(rows, LAMBDA r :
                 r["short_site_identifier"].t \notin {"nan", "none"})
  IN [k \in 1..Len(named) |-> named[k]["short_site_identifier"]]

\* target_type, updated_sites = ingester.update_targets(calibration_site_xls)
\* short_site_identifiers = short_site_identifiers + updated_sites
UpdateRunTargets ==
  /\ pc = "update_targets"
  /\ UNCHANGED <<ingesterVars, license_url>>
  /\ \/ \E rows \in TargetWorkbooks(nat_target_base) :
          LET new == not_existing(rows, store["calibration_targets"]) IN
          /\ do_nat_targets_ingestion(new, "update_surveys")
          /\ site_ids' = IF pc' = "raised" THEN site_ids
                         ELSE site_ids \o updated_site_ids(new)
     \/ \E rows \in TargetWorkbooks(art_target_base) :
          LET new == not_existing(rows, store["calibration_targets"]) IN
          /\ do_art_targets_ingestion(new, "update_surveys")
          /\ site_ids' = IF pc' = "raised" THEN site_ids
                         ELSE site_ids \o updated_site_ids(new)

\* updated_sites = ingester.update_surveys(calibration_site_xls, "natural")
\* short_site_identifiers = short_site_identifiers + updated_sites:
\* update_nat_surveys returns None, and list + None raises TypeError
UpdateNatSurveys ==
  /\ pc = "update_surveys"
  /\ ingest_surveys_kind(target_type) = "nat_surveys"
  /\ UNCHANGED <<ingesterVars, remoteVars, localVars>>
  /\ \E rows \in Sheets(nat_survey_base, NatSurveyRows) :
       LET df == read_nat_surveys_df(rows)
           events == validate_nat_surveys(df)
           r == Report(events, validation_mode, printed)
       IN
       /\ sheet' = Sheet("nat_surveys", rows, NoNet, df, events)
       /\ printed' = r.printed
       /\ IF r.raised # NoError
          THEN Raise(r.raised)
          ELSE Raise(ExcEv("TypeError"))

\* ... with "artificial": update_art_surveys returns None as well
UpdateArtSurveys ==
  /\ pc = "update_surveys"
  /\ ingest_surveys_kind(target_type) = "surveys"
  /\ UNCHANGED <<ingesterVars, remoteVars, localVars>>
  /\ \E rows \in Sheets(art_survey_base, ArtSurveyRows) :
       LET df == read_art_surveys_df(rows)
           events == art_surveys_pass(rows)
           r == Report(events, validation_mode, printed)
       IN
       /\ sheet' = Sheet("surveys", rows, NoNet, df, events)
       /\ printed' = r.printed
       /\ IF r.raised # NoError
          THEN Raise(r.raised)
          ELSE Raise(ExcEv("TypeError"))

UpdateNext ==
  \/ UpdateSites
  \/ UpdateRunTargets
  \/ UpdateNatSurveys
  \/ UpdateArtSurveys

UpdateSpec == UpdateInit /\ [][UpdateNext]_vars


\* the records a step added to a collection
NewRecords(coll) ==
  SubSeq(store'[coll], Len(store[coll]) + 1, Len(store'[coll]))

SitesStepInsertsOnlyNew ==
  (pc = "start" /\ pc' = "update_targets") =>
    \A r \in Range(NewRecords("calibration_sites")) :
      ~\E e \in Range(store["calibration_sites"]) :
         /\ e["short_site_identifier"] = r["short_site_identifier"]
         /\ e["primary_target_type_identifier"]
              = r["primary_target_type_identifier"]

TargetsStepInsertsOnlyNew ==
  (pc = "update_targets" /\ pc' = "update_surveys") =>
    \A coll \in {"calibration_targets", "calibration_nat_targets"} :
      \A r \in Range(NewRecords(coll)) :
        ~\E e \in Range(store[coll]) :
           e["unique_target_id"] = r["unique_target_id"]

UpdateSitesInsertsOnlyNew == [][SitesStepInsertsOnlyNew]_vars

\* C25: update_sites inserts no site whose short identifier and primary
\* target type code are already in the sites collection, and
\* update_targets inserts no target whose unique target id is already in
\* the target collection of its kind
C25_UpdateInsertsOnlyNewRows ==
  [][SitesStepInsertsOnlyNew /\ TargetsStepInsertsOnlyNew]_vars

\* the rows of the sheet in hand are the rows of a submission without defect
ValidRows ==
  /\ sheet.events = <<>>
  /\ \A k \in 1..Len(sheet.raw) :
       \/ sheet.raw[k] \in {site_base, nat_survey_base, art_survey_base}
       \/ \E id \in {Str(s_t1), Str(s_t2)} :
            sheet.raw[k] \in
              {[nat_target_base EXCEPT !["unique_target_id"] = id],
               [art_target_base EXCEPT !["unique_target_id"] = id]}

\* C27: an update run on valid rows does not end with an exception, unless
\* the media service refuses a request
C27_ValidUpdateRunTerminates ==
  (pc = "raised" /\ ValidRows) => raised = ExcEv("ValueError")

=============================================================================
